---- MODULE Spec2Model ----
(***************************************************************************)
(* Model of the query safety / repair pipeline and of the conversation     *)
(* turn of the property chatbot.                                           *)
(*                                                                         *)
(* SQL text is a sequence of lexical tokens.  Adjacent tokens are          *)
(* separated by one blank in the text; the token " " stands for explicit   *)
(* leading or trailing whitespace.  Character-level tests of the source    *)
(* (upper(), startswith, substring search, regular expressions) are        *)
(* tabulated per token below.  The three-backquote code fence marker is  *)
(* written <fence> inside token names.                                      *)
(***************************************************************************)
EXTENDS Integers, Sequences, FiniteSets, TLC

(***************************************************************************)
(* Bounds of the model                                                     *)
(***************************************************************************)
MaxRetriesBound == 2   \* largest max_retries given to the repair loop on its own
MaxJoins == 1          \* JOINs in the FROM clause of a candidate statement
MaxNest == 1           \* nesting depth of IN (subquery) in a candidate statement
MaxRows == 2           \* address rows the registry of a conversation holds

(***************************************************************************)
(* pre_execution_validation.py : allow-lists                               *)
(***************************************************************************)
DANGEROUS_KEYWORDS == {"DELETE", "UPDATE", "INSERT", "DROP", "TRUNCATE", "ALTER", "CREATE"}

ALLOWED_TABLES ==
    {"properties", "property_addresses", "persons", "ownership_records",
     "ownership_sellers", "current_owners", "current_owner_sellers", "sale_deeds",
     "construction_details", "legal_details", "share_certificates",
     "club_memberships", "misc_documents"}

ALLOWED_COLUMNS ==
    [t \in ALLOWED_TABLES |->
        CASE t = "properties" ->
                {"id", "pra", "file_no", "file_name", "file_link", "qc_status"}
          [] t = "property_addresses" ->
                {"id", "property_id", "plot_no", "road_no", "street_name",
                 "initial_plot_size", "source_page", "flag"}
          [] t = "persons" ->
                {"id", "pra", "name", "dob", "family_members", "address",
                 "phone_number", "email", "pan", "aadhaar", "img_link",
                 "occupation", "source_page", "person_source", "flag"}
          [] t = "ownership_records" ->
                {"id", "property_id", "buyer_id", "sale_deed_id", "transfer_type",
                 "buyer_portion", "total_stamp_duty_paid", "notes", "source_page", "flag"}
          [] t = "ownership_sellers" -> {"ownership_id", "person_id"}
          [] t = "current_owners" ->
                {"id", "property_id", "buyer_id", "buyer_portion", "source_page", "flag"}
          [] t = "current_owner_sellers" -> {"current_owner_id", "person_id"}
          [] t = "sale_deeds" ->
                {"id", "person_id", "property_id", "sale_deed_no", "book_no", "page_no",
                 "signing_date", "registry_status", "owners_portion_sold",
                 "total_property_portion_sold", "source_page", "pdf_link", "flag"}
          [] t = "construction_details" ->
                {"id", "property_id", "coverage_built_up_area", "circle_rate_colony",
                 "land_price_per_sqm", "construction_price_per_sqm",
                 "total_covered_area", "source_page", "pdf_link", "flag"}
          [] t = "legal_details" ->
                {"id", "property_id", "registrar_office", "court_cases",
                 "source_page", "pdf_link", "flag"}
          [] t = "share_certificates" ->
                {"id", "certificate_number", "property_id", "member_id",
                 "date_of_transfer", "date_of_ending", "notes", "source_page",
                 "pdf_link", "flag"}
          [] t = "club_memberships" ->
                {"id", "member_id", "property_id", "allocation_date",
                 "membership_end_date", "membership_number", "source_page",
                 "pdf_link", "flag"}
          [] t = "misc_documents" -> {"id", "property_id", "pra"}]

default_limit == 100

(***************************************************************************)
(* Lexical tables                                                          *)
(***************************************************************************)
Fences      == {"<fence>sql", "<fence>SQL", "<fence>"}
Literals    == {"'x'", "'a;b'", "'limit'", "'deleted'"}
Unterminated == {"'a"}   \* a string literal cut before its closing quote
\* the string literals graph.py and map.py write from a plot, road or pra value
ValueLiterals ==
    {"''", "'hello'", "'30'", "'31'", "'14'", "'30 road'", "'map'", "'note summary'",
     "'DELETE plot map'", "'generate not summary'", "'who owns plot 30'",
     "'plot map'",
     "'note summary for 30/14'", "'note summary map 30/14'",
     "'show the map of plot 30 road 14'", "'PRA1'", "'PRA2'", "'PRA3'"}
Numbers     == {"1", "5", "100", "5000", "45000"}
AggNames    == {"COUNT", "MAX"}
FuncNames   == {"TRIM", "LOWER"}
Keywords    == {"SELECT", "FROM", "JOIN", "ON", "WHERE", "IN", "AS", "UNION", "LIMIT", "WITH",
                "DELETE", "DROP", "UPDATE", "DISTINCT", "AND", "IS", "NOT", "NULL"}
Punctuation == {"(", ")", ",", ".", ";", "=", "<>", "*", " "}

\* str.upper() of one token
Upper(tok) ==
    CASE tok = "select"  -> "SELECT"
      [] tok = "limit"   -> "LIMIT"
      [] tok = "from"    -> "FROM"
      [] tok = "delete"  -> "DELETE"
      [] tok = "'limit'" -> "'LIMIT'"
      [] tok = "'deleted'" -> "'DELETED'"
      [] tok = "created_at" -> "CREATED_AT"
      [] OTHER -> tok

\* the dangerous keywords that occur as a substring of upper(tok)
KeywordsIn(tok) ==
    CASE Upper(tok) = "DELETE"     -> {"DELETE"}
      [] Upper(tok) = "DROP"       -> {"DROP"}
      [] Upper(tok) = "UPDATE"     -> {"UPDATE"}
      [] Upper(tok) = "'DELETED'"  -> {"DELETE"}
      [] Upper(tok) = "CREATED_AT" -> {"CREATE"}
      [] tok = "'DELETE plot map'" -> {"DELETE"}
      [] tok = "DE<fence>LETE"         -> {}
      [] OTHER -> {}

\* upper(tok).startswith("SELECT")
StartsWithSELECT(tok) == Upper(tok) \in {"SELECT", "SELECTX"}

\* number of ';' characters in one token
SemiCount(tok) ==
    IF tok \in {";", "'a;b'", "LLM produced multiple SQL statements; blocking."} THEN 1 ELSE 0

\* re.search(r"\bLIMIT\b", tok, IGNORECASE)
MatchesLIMIT(tok) == Upper(tok) \in {"LIMIT", "'LIMIT'"}

\* re.sub of the fence markers inside one token: "" when the token vanishes
SubFences(tok) ==
    CASE tok \in Fences     -> ""
      [] tok = "SEL<fence>ECT"  -> "SELECT"
      [] tok = "DE<fence>LETE"  -> "DELETE"
      [] OTHER -> tok

(***************************************************************************)
(* Text helpers (Python str and re operations on token sequences)          *)
(***************************************************************************)
Last(text) == text[Len(text)]
Front(text) == SubSeq(text, 1, Len(text) - 1)

RECURSIVE lstrip(_)
lstrip(text) ==
    IF text # <<>> /\ Head(text) = " " THEN lstrip(Tail(text)) ELSE text

RECURSIVE rstrip(_)
rstrip(text) ==
    IF text # <<>> /\ Last(text) = " " THEN rstrip(Front(text)) ELSE text

strip(text) == rstrip(lstrip(text))

\* text.count(";")
count_semi(text) == Cardinality({i \in DOMAIN text : SemiCount(text[i]) = 1})

\* text.endswith(";")
endswith_semi(text) == text # <<>> /\ Last(text) = ";"

\* re.sub(r"```sql", "", sql, IGNORECASE) followed by re.sub(r"```", "", .)
re_sub_fences(text) ==
    SelectSeq([i \in DOMAIN text |-> SubFences(text[i])], LAMBDA t : t # "")

\* re.search(r"\bLIMIT\b", raw, IGNORECASE)
re_search_LIMIT(text) == \E i \in DOMAIN text : MatchesLIMIT(text[i])

(***************************************************************************)
(* Outcome of a call that either returns SQL text or raises                *)
(***************************************************************************)
NoText == <<>>
Returned(text) == [ok |-> TRUE, exc |-> "", reason |-> "", sql |-> text]
Raised(e, r)   == [ok |-> FALSE, exc |-> e, reason |-> r, sql |-> NoText]

(***************************************************************************)
(* pre_execution_validation.py : _clean_sql_one_statement                  *)
(***************************************************************************)
\* a statement count that never finds a second statement
MultiStatementTest_never(cleaned) == FALSE

\* cleaned.count(";") > 1
MultiStatementTest(cleaned) == count_semi(cleaned) > 1

_clean_sql_one_statement(sql) ==
    LET cleaned == strip(re_sub_fences(sql)) IN
    IF cleaned = <<>>
    THEN Raised("SQLValidationError", "Empty SQL query from LLM")
    ELSE IF MultiStatementTest(cleaned)
    THEN Raised("SQLValidationError", "LLM produced multiple SQL statements; blocking.")
    ELSE Returned(strip(IF endswith_semi(cleaned) THEN cleaned ELSE cleaned \o <<";">>))

(***************************************************************************)
(* pre_execution_validation.py : _cheap_keyword_guard                      *)
(***************************************************************************)
StartsWithSelectTest(sql) ==
    LET u == lstrip(sql) IN u # <<>> /\ StartsWithSELECT(Head(u))

\* a keyword test that looks at whole words only
DangerousKeywordTest_wholeWords(sql) ==
    \E i \in DOMAIN sql : Upper(sql[i]) \in DANGEROUS_KEYWORDS

\* any(kw in upper for kw in DANGEROUS_KEYWORDS)
DangerousKeywordTest(sql) ==
    \E kw \in DANGEROUS_KEYWORDS : \E i \in DOMAIN sql : kw \in KeywordsIn(sql[i])

_cheap_keyword_guard(sql) ==
    IF ~StartsWithSelectTest(sql)
    THEN Raised("SQLValidationError", "Only SELECT queries are allowed.")
    ELSE IF DangerousKeywordTest(sql)
    THEN Raised("SQLValidationError", "Disallowed keyword found in SQL.")
    ELSE Returned(sql)

(***************************************************************************)
(* sqlglot parse_one(sql, read="postgres") as used by the guardrail:       *)
(* a recursive-descent parser of the statement grammar                     *)
(*   query  ::= select [UNION select]                                      *)
(*   select ::= SELECT [DISTINCT] item {, item}                            *)
(*              [FROM tref {JOIN tref ON col = col}]                       *)
(*              [WHERE pred {AND pred}] [LIMIT number]                     *)
(*   pred   ::= expr (= expr | <> expr | IS NOT NULL | IN ( query ))       *)
(*   item   ::= expr [AS ident]                                            *)
(*   expr   ::= literal | number | * | agg ( * | col ) | func ( expr )     *)
(*              | col                                                      *)
(*   col    ::= ident [. ident]                                            *)
(*   tref   ::= ident [[AS] ident] | ( query ) [[AS] ident]                *)
(* The text is split at ';' into statements, every statement is parsed,    *)
(* and the first one is returned.                                          *)
(***************************************************************************)
EOF == "<eof>"
Tok(s, i) == IF i \in DOMAIN s THEN s[i] ELSE EOF

IsIdent(t) ==
    /\ t # EOF
    /\ Upper(t) \notin Keywords
    /\ t \notin Punctuation \cup Literals \cup ValueLiterals \cup Unterminated \cup Numbers
                \cup AggNames
                \cup FuncNames \cup Fences

Nil == [kind |-> "None"]
Fail == [ok |-> FALSE, node |-> Nil, pos |-> 0]
Ok(n, p) == [ok |-> TRUE, node |-> n, pos |-> p]

Column(q, n) == [kind |-> "Column", table |-> q, name |-> n]
Star == [kind |-> "Star"]

ParseColRef(s, i) ==
    IF ~IsIdent(Tok(s, i)) THEN Fail
    ELSE IF Tok(s, i + 1) = "."
         THEN IF IsIdent(Tok(s, i + 2))
              THEN Ok(Column(Tok(s, i), Tok(s, i + 2)), i + 3)
              ELSE Fail
         ELSE Ok(Column("", Tok(s, i)), i + 1)

\* Each parsing operator hands what it has parsed so far (a result [ok, node,
\* pos]) to the operator that parses what follows.

\* agg ( arg ) : arg has been parsed
ParseAggClose(s, fn, a) ==
    IF a.ok /\ Tok(s, a.pos) = ")"
    THEN Ok([kind |-> "AggFunc", fn |-> fn, arg |-> a.node], a.pos + 1)
    ELSE Fail

\* func ( expr ) : the argument has been parsed
ParseFuncClose(s, fn, a) ==
    IF a.ok /\ Tok(s, a.pos) = ")"
    THEN Ok([kind |-> "Func", fn |-> fn, arg |-> a.node], a.pos + 1)
    ELSE Fail

RECURSIVE ParseExpr(_, _)
ParseExpr(s, i) ==
    IF Tok(s, i) \in Literals \cup ValueLiterals \cup Numbers
    THEN Ok([kind |-> "Literal", this |-> Tok(s, i)], i + 1)
    ELSE IF Tok(s, i) = "*" THEN Ok(Star, i + 1)
    ELSE IF Upper(Tok(s, i)) \in FuncNames
    THEN IF Tok(s, i + 1) # "(" THEN Fail
         ELSE ParseFuncClose(s, Upper(Tok(s, i)), ParseExpr(s, i + 2))
    ELSE IF Tok(s, i) \in AggNames
    THEN IF Tok(s, i + 1) # "(" THEN Fail
         ELSE ParseAggClose(s, Tok(s, i),
                            IF Tok(s, i + 2) = "*" THEN Ok(Star, i + 3)
                            ELSE ParseColRef(s, i + 2))
    ELSE ParseColRef(s, i)

\* expr [AS ident] : expr has been parsed
ParseItemAlias(s, e) ==
    IF ~e.ok THEN Fail
    ELSE IF Upper(Tok(s, e.pos)) = "AS"
         THEN IF IsIdent(Tok(s, e.pos + 1))
              THEN Ok([e |-> e.node, alias |-> Tok(s, e.pos + 1)], e.pos + 2)
              ELSE Fail
         ELSE Ok([e |-> e.node, alias |-> ""], e.pos)

ParseItem(s, i) == ParseItemAlias(s, ParseExpr(s, i))

ConsItems(it, rest) ==
    IF rest.ok THEN Ok(<<it.node>> \o rest.node, rest.pos) ELSE Fail

RECURSIVE ParseItems(_, _)
RECURSIVE ParseMoreItems(_, _)

\* item {, item} : the first item has been parsed
ParseMoreItems(s, it) ==
    IF ~it.ok THEN Fail
    ELSE IF Tok(s, it.pos) = ","
         THEN ConsItems(it, ParseItems(s, it.pos + 1))
         ELSE Ok(<<it.node>>, it.pos)

ParseItems(s, i) == ParseMoreItems(s, ParseItem(s, i))

\* optional [AS] ident after a table or a derived table: node is the alias name
ParseTableAlias(s, i) ==
    IF Upper(Tok(s, i)) = "AS"
    THEN IF IsIdent(Tok(s, i + 1)) THEN Ok(Tok(s, i + 1), i + 2) ELSE Fail
    ELSE IF IsIdent(Tok(s, i)) THEN Ok(Tok(s, i), i + 1)
    ELSE Ok("", i)

RECURSIVE ParseQuery(_, _)
RECURSIVE ParseSelect(_, _)
RECURSIVE ParseTRef(_, _)
RECURSIVE ParseJoins(_, _)
RECURSIVE ParseWhere(_, _)

\* a table with its alias a
ParseTableEnd(name, a) ==
    IF ~a.ok THEN Fail
    ELSE Ok([kind |-> "Table", name |-> name, alias |-> a.node], a.pos)

\* a derived table q with its alias a
ParseDerivedEnd(q, a) ==
    IF ~a.ok THEN Fail
    ELSE Ok([kind |-> "Subquery", this |-> q.node, alias |-> a.node], a.pos)

\* ( query ) [[AS] ident] : the query has been parsed
ParseDerivedClose(s, q) ==
    IF ~(q.ok /\ Tok(s, q.pos) = ")") THEN Fail
    ELSE ParseDerivedEnd(q, ParseTableAlias(s, q.pos + 1))

ParseTRef(s, i) ==
    IF Tok(s, i) = "(" THEN ParseDerivedClose(s, ParseQuery(s, i + 1))
    ELSE IF IsIdent(Tok(s, i)) THEN ParseTableEnd(Tok(s, i), ParseTableAlias(s, i + 1))
    ELSE Fail

ConsJoins(t, l, r, rest) ==
    IF ~rest.ok THEN Fail
    ELSE Ok(<<[t |-> t.node, on |-> <<l.node, r.node>>]>> \o rest.node, rest.pos)

RECURSIVE ParseJoinRight(_, _, _, _)
RECURSIVE ParseJoinLeft(_, _, _)
RECURSIVE ParseJoinOn(_, _)

\* JOIN tref ON col = col : the right column has been parsed
ParseJoinRight(s, t, l, r) ==
    IF ~r.ok THEN Fail ELSE ConsJoins(t, l, r, ParseJoins(s, r.pos))

\* JOIN tref ON col : the left column has been parsed
ParseJoinLeft(s, t, l) ==
    IF ~(l.ok /\ Tok(s, l.pos) = "=") THEN Fail
    ELSE ParseJoinRight(s, t, l, ParseColRef(s, l.pos + 1))

\* JOIN tref : the joined table has been parsed
ParseJoinOn(s, t) ==
    IF ~(t.ok /\ Upper(Tok(s, t.pos)) = "ON") THEN Fail
    ELSE ParseJoinLeft(s, t, ParseColRef(s, t.pos + 1))

\* {JOIN tref ON col = col}: node is the sequence of joins
ParseJoins(s, i) ==
    IF Upper(Tok(s, i)) # "JOIN" THEN Ok(<<>>, i)
    ELSE ParseJoinOn(s, ParseTRef(s, i + 1))

\* expr = expr : the right expression has been parsed
ParseWhereEq(l, r) ==
    IF ~r.ok THEN Fail ELSE Ok([kind |-> "EQ", l |-> l.node, r |-> r.node], r.pos)

\* expr <> expr : the right expression has been parsed
ParseWhereNeq(l, r) ==
    IF ~r.ok THEN Fail ELSE Ok([kind |-> "NEQ", l |-> l.node, r |-> r.node], r.pos)

\* expr IN ( query ) : the query has been parsed
ParseWhereIn(s, l, q) ==
    IF ~(q.ok /\ Tok(s, q.pos) = ")") THEN Fail
    ELSE Ok([kind |-> "In", l |-> l.node, query |-> q.node], q.pos + 1)

RECURSIVE ParseWhereTest(_, _)

\* one predicate : its left expression has been parsed
ParseWhereTest(s, l) ==
    IF ~l.ok THEN Fail
    ELSE IF Tok(s, l.pos) = "=" THEN ParseWhereEq(l, ParseExpr(s, l.pos + 1))
    ELSE IF Tok(s, l.pos) = "<>" THEN ParseWhereNeq(l, ParseExpr(s, l.pos + 1))
    ELSE IF Upper(Tok(s, l.pos)) = "IS" /\ Upper(Tok(s, l.pos + 1)) = "NOT"
            /\ Upper(Tok(s, l.pos + 2)) = "NULL"
    THEN Ok([kind |-> "IsNotNull", l |-> l.node], l.pos + 3)
    ELSE IF Upper(Tok(s, l.pos)) = "IN" /\ Tok(s, l.pos + 1) = "("
    THEN ParseWhereIn(s, l, ParseQuery(s, l.pos + 2))
    ELSE Fail

RECURSIVE ParseWhereMore(_, _)
RECURSIVE ParseWhereAnd(_, _, _)

\* pred AND pred : the right predicate has been parsed
ParseWhereAnd(s, acc, r) ==
    IF ~r.ok THEN Fail
    ELSE ParseWhereMore(s, Ok([kind |-> "And", l |-> acc.node, r |-> r.node], r.pos))

\* pred {AND pred} : the predicates so far have been parsed into acc
ParseWhereMore(s, acc) ==
    IF ~acc.ok THEN Fail
    ELSE IF Upper(Tok(s, acc.pos)) = "AND"
    THEN ParseWhereAnd(s, acc, ParseWhereTest(s, ParseExpr(s, acc.pos + 1)))
    ELSE acc

ParseWhere(s, i) ==
    IF Upper(Tok(s, i)) # "WHERE" THEN Ok(Nil, i)
    ELSE ParseWhereMore(s, ParseWhereTest(s, ParseExpr(s, i + 1)))

\* [LIMIT number]
ParseLimit(s, i) ==
    IF Upper(Tok(s, i)) = "LIMIT"
    THEN IF Tok(s, i + 1) \in Numbers THEN Ok(Tok(s, i + 1), i + 2) ELSE Fail
    ELSE Ok("", i)

SelectNode(d, its, fr, wh, lim) ==
    IF ~lim.ok THEN Fail
    ELSE Ok([kind |-> "Select", distinct |-> d, items |-> its.node, from |-> fr.node,
             where |-> wh.node, limit |-> lim.node], lim.pos)

ConsFrom(t, js) ==
    IF ~js.ok THEN Fail ELSE Ok(<<[t |-> t.node, on |-> <<>>]>> \o js.node, js.pos)

RECURSIVE ParseFromJoins(_, _)
RECURSIVE ParseFrom(_, _)
RECURSIVE ParseSelectWhere(_, _, _, _)
RECURSIVE ParseSelectFrom(_, _, _)

\* FROM tref : the first table has been parsed
ParseFromJoins(s, t) ==
    IF ~t.ok THEN Fail ELSE ConsFrom(t, ParseJoins(s, t.pos))

\* [FROM tref {JOIN ...}]
ParseFrom(s, i) ==
    IF Upper(Tok(s, i)) = "FROM" THEN ParseFromJoins(s, ParseTRef(s, i + 1))
    ELSE Ok(<<>>, i)

ParseSelectLimit(s, d, its, fr, wh) ==
    IF ~wh.ok THEN Fail ELSE SelectNode(d, its, fr, wh, ParseLimit(s, wh.pos))

\* SELECT items FROM ... : the FROM clause has been parsed
ParseSelectWhere(s, d, its, fr) ==
    IF ~fr.ok THEN Fail ELSE ParseSelectLimit(s, d, its, fr, ParseWhere(s, fr.pos))

\* SELECT items : the select list has been parsed
ParseSelectFrom(s, d, its) ==
    IF ~its.ok THEN Fail ELSE ParseSelectWhere(s, d, its, ParseFrom(s, its.pos))

ParseSelect(s, i) ==
    IF Upper(Tok(s, i)) # "SELECT" THEN Fail
    ELSE IF Upper(Tok(s, i + 1)) = "DISTINCT"
    THEN ParseSelectFrom(s, TRUE, ParseItems(s, i + 2))
    ELSE ParseSelectFrom(s, FALSE, ParseItems(s, i + 1))

UnionNode(l, r) ==
    IF ~r.ok THEN Fail
    ELSE Ok([kind |-> "Union", left |-> l.node, right |-> r.node], r.pos)

RECURSIVE ParseUnion(_, _)

\* select [UNION select] : the first select has been parsed
ParseUnion(s, l) ==
    IF ~l.ok THEN Fail
    ELSE IF Upper(Tok(s, l.pos)) = "UNION" THEN UnionNode(l, ParseSelect(s, l.pos + 1))
    ELSE l

ParseQuery(s, i) == ParseUnion(s, ParseSelect(s, i))

\* a statement r is parsed when no token is left after it
ParseToEnd(s, r) == IF r.ok /\ r.pos = Len(s) + 1 THEN r ELSE Fail

\* one statement: a query, or (as sqlglot does for any other start) an expression
ParseStatement(s) ==
    ParseToEnd(s, IF Upper(Tok(s, 1)) = "SELECT" THEN ParseQuery(s, 1) ELSE ParseExpr(s, 1))

\* the tokenizer drops whitespace
Tokenize(text) == SelectSeq(text, LAMBDA t : t # " ")

\* the statements of a text: the chunks between ';' tokens (a final ';' ends
\* the last statement and opens no new one)
RECURSIVE Chunks(_)
Chunks(s) ==
    IF \A i \in DOMAIN s : s[i] # ";" THEN <<s>>
    ELSE LET k == CHOOSE i \in DOMAIN s : s[i] = ";" /\ \A j \in 1..(i - 1) : s[j] # ";" IN
         IF k = Len(s) THEN <<SubSeq(s, 1, k - 1)>>
         ELSE <<SubSeq(s, 1, k - 1)>> \o Chunks(SubSeq(s, k + 1, Len(s)))

\* parse_one: [ok, node]; ~ok models sqlglot.errors.ParseError
FirstStatement(parsed) == parsed[1]

ParseAll(chunks) == [k \in DOMAIN chunks |-> ParseStatement(chunks[k])]

FirstOfAll(parsed) ==
    IF \A k \in DOMAIN parsed : parsed[k].ok THEN FirstStatement(parsed) ELSE Fail

parse_one(text) == FirstOfAll(ParseAll(Chunks(Tokenize(text))))

(***************************************************************************)
(* sqlglot Expression.sql(dialect="postgres"): the generator.  Keywords    *)
(* are written in upper case and every alias with AS.                      *)
(***************************************************************************)
RECURSIVE GenExpr(_)
GenExpr(e) ==
    CASE e.kind = "Literal" -> <<e.this>>
      [] e.kind = "Func"    -> <<e.fn, "(">> \o GenExpr(e.arg) \o <<")">>
      [] e.kind = "Star"    -> <<"*">>
      [] e.kind = "Column"  -> IF e.table = "" THEN <<e.name>> ELSE <<e.table, ".", e.name>>
      [] e.kind = "AggFunc" ->
            <<e.fn, "(">>
            \o (IF e.arg.kind = "Star" THEN <<"*">>
                ELSE IF e.arg.table = "" THEN <<e.arg.name>>
                ELSE <<e.arg.table, ".", e.arg.name>>)
            \o <<")">>

GenAlias(a) == IF a = "" THEN <<>> ELSE <<"AS", a>>

RECURSIVE GenItems(_)
GenItems(items) ==
    IF items = <<>> THEN <<>>
    ELSE GenExpr(Head(items).e) \o GenAlias(Head(items).alias)
         \o (IF Tail(items) = <<>> THEN <<>> ELSE <<",">> \o GenItems(Tail(items)))

RECURSIVE Gen(_)
RECURSIVE GenTRef(_)
RECURSIVE GenJoins(_)
RECURSIVE GenWhere(_)

GenTRef(t) ==
    IF t.kind = "Table" THEN <<t.name>> \o GenAlias(t.alias)
    ELSE <<"(">> \o Gen(t.this) \o <<")">> \o GenAlias(t.alias)

GenJoins(js) ==
    IF js = <<>> THEN <<>>
    ELSE <<"JOIN">> \o GenTRef(Head(js).t) \o <<"ON">> \o GenExpr(Head(js).on[1])
         \o <<"=">> \o GenExpr(Head(js).on[2]) \o GenJoins(Tail(js))

GenWhere(w) ==
    CASE w.kind = "And" -> GenWhere(w.l) \o <<"AND">> \o GenWhere(w.r)
      [] w.kind = "EQ"  -> GenExpr(w.l) \o <<"=">> \o GenExpr(w.r)
      [] w.kind = "NEQ" -> GenExpr(w.l) \o <<"<>">> \o GenExpr(w.r)
      [] w.kind = "IsNotNull" -> <<"NOT">> \o GenExpr(w.l) \o <<"IS", "NULL">>
      [] w.kind = "In"  -> GenExpr(w.l) \o <<"IN", "(">> \o Gen(w.query) \o <<")">>

Gen(n) ==
    CASE n.kind = "Union"  -> Gen(n.left) \o <<"UNION">> \o Gen(n.right)
      [] n.kind = "Select" ->
            <<"SELECT">> \o (IF n.distinct THEN <<"DISTINCT">> ELSE <<>>)
            \o GenItems(n.items)
            \o (IF n.from = <<>> THEN <<>>
                ELSE <<"FROM">> \o GenTRef(Head(n.from).t) \o GenJoins(Tail(n.from)))
            \o (IF n.where.kind = "None" THEN <<>> ELSE <<"WHERE">> \o GenWhere(n.where))
            \o (IF n.limit = "" THEN <<>> ELSE <<"LIMIT", n.limit>>)
      [] OTHER -> GenExpr(n)

(***************************************************************************)
(* sqlglot Expression.find_all(...): breadth-first walks of the tree.      *)
(* The SELECT nodes are listed level by level (a nested query after every  *)
(* query that encloses it); each walk lists what these nodes hold.         *)
(***************************************************************************)
Selects(q) ==
    CASE q.kind = "Union"  -> <<q.left, q.right>>
      [] q.kind = "Select" -> <<q>>
      [] OTHER -> <<>>

RECURSIVE DerivedOf(_)
DerivedOf(from) ==
    IF from = <<>> THEN <<>>
    ELSE (IF Head(from).t.kind = "Subquery" THEN Selects(Head(from).t.this) ELSE <<>>)
         \o DerivedOf(Tail(from))

\* the queries nested in a WHERE clause
RECURSIVE WhereQueries(_)
WhereQueries(w) ==
    CASE w.kind = "And" -> WhereQueries(w.l) \o WhereQueries(w.r)
      [] w.kind = "In"  -> Selects(w.query)
      [] OTHER -> <<>>

Children(sel) == DerivedOf(sel.from) \o WhereQueries(sel.where)

RECURSIVE ChildrenOfLevel(_)
ChildrenOfLevel(level) ==
    IF level = <<>> THEN <<>> ELSE Children(Head(level)) \o ChildrenOfLevel(Tail(level))

RECURSIVE Bfs(_)
Bfs(level) == IF level = <<>> THEN <<>> ELSE level \o Bfs(ChildrenOfLevel(level))

AllSelects(ast) == Bfs(Selects(ast))

RECURSIVE OwnTables(_)
OwnTables(from) ==
    IF from = <<>> THEN <<>>
    ELSE (IF Head(from).t.kind = "Table" THEN <<Head(from).t>> ELSE <<>>)
         \o OwnTables(Tail(from))

RECURSIVE OwnDerivedAliases(_)
OwnDerivedAliases(from) ==
    IF from = <<>> THEN {}
    ELSE (IF Head(from).t.kind = "Subquery" /\ Head(from).t.alias # ""
          THEN {Head(from).t.alias} ELSE {})
         \cup OwnDerivedAliases(Tail(from))

RECURSIVE ExprColumns(_)
ExprColumns(e) ==
    CASE e.kind = "Column"  -> <<e>>
      [] e.kind = "AggFunc" -> IF e.arg.kind = "Column" THEN <<e.arg>> ELSE <<>>
      [] e.kind = "Func"    -> ExprColumns(e.arg)
      [] OTHER -> <<>>

\* the columns of a WHERE clause outside its nested queries
RECURSIVE WhereColumns(_)
WhereColumns(w) ==
    CASE w.kind = "And" -> WhereColumns(w.l) \o WhereColumns(w.r)
      [] w.kind \in {"EQ", "NEQ"} -> ExprColumns(w.l) \o ExprColumns(w.r)
      [] w.kind \in {"In", "IsNotNull"} -> ExprColumns(w.l)
      [] OTHER -> <<>>

RECURSIVE ItemColumns(_)
ItemColumns(items) ==
    IF items = <<>> THEN <<>> ELSE ExprColumns(Head(items).e) \o ItemColumns(Tail(items))

RECURSIVE JoinColumns(_)
JoinColumns(from) ==
    IF from = <<>> THEN <<>> ELSE Head(from).on \o JoinColumns(Tail(from))

OwnColumns(sel) ==
    ItemColumns(sel.items) \o JoinColumns(sel.from) \o WhereColumns(sel.where)

RECURSIVE TablesOf(_)
TablesOf(sels) ==
    IF sels = <<>> THEN <<>> ELSE OwnTables(Head(sels).from) \o TablesOf(Tail(sels))

RECURSIVE ColumnsOf(_)
ColumnsOf(sels) ==
    IF sels = <<>> THEN <<>> ELSE OwnColumns(Head(sels)) \o ColumnsOf(Tail(sels))

\* ast.find_all(exp.Table)
find_all_Table(ast) == TablesOf(AllSelects(ast))

\* ast.find_all(exp.Column)
find_all_Column(ast) ==
    IF ast.kind \in {"Select", "Union"} THEN ColumnsOf(AllSelects(ast)) ELSE ExprColumns(ast)

\* ast.find_all(exp.AggFunc) is non-empty
AnyAggItem(sels) ==
    \E k \in DOMAIN sels :
        \E i \in DOMAIN sels[k].items : sels[k].items[i].e.kind = "AggFunc"

find_all_AggFunc(ast) ==
    IF ast.kind \in {"Select", "Union"} THEN AnyAggItem(AllSelects(ast))
    ELSE ast.kind = "AggFunc"

(***************************************************************************)
(* pre_execution_validation.py : alias collection helpers                  *)
(***************************************************************************)
None == "<None>"

\* alias_expr is the Identifier of an exp.Alias; alias_ident = alias_expr.this is
\* that identifier's text, a Python str, and getattr(str, "name", None) is None:
\* no alias name passes the final "if alias_name" test.
\* the alias expressions of the exp.Alias nodes of the tree
AliasExprs(sels) ==
    {x \in UNION {{sels[k].items[i].alias : i \in DOMAIN sels[k].items}
                    : k \in DOMAIN sels} : x # ""}

\* getattr(getattr(alias_expr, "this", None), "name", None)
AliasName(alias_expr) == None

_collect_select_aliases(ast) ==
    {AliasName(x) : x \in AliasExprs(AllSelects(ast))} \ {None}

DerivedAliases(sels) == UNION {OwnDerivedAliases(sels[k].from) : k \in DOMAIN sels}

_collect_subquery_aliases(ast) == DerivedAliases(AllSelects(ast))

(***************************************************************************)
(* pre_execution_validation.py : _guard_tables_and_columns                 *)
(***************************************************************************)
\* alias_map after the loop over ast.find_all(exp.Table): a later table
\* reference overwrites an earlier entry with the same key
RECURSIVE BuildAliasMap(_, _)
BuildAliasMap(tables, m) ==
    IF tables = <<>> THEN m
    ELSE LET t  == Head(tables)
             m1 == [x \in DOMAIN m \cup {t.name} |-> IF x = t.name THEN t.name ELSE m[x]]
             m2 == IF t.alias = "" THEN m1
                   ELSE [x \in DOMAIN m1 \cup {t.alias} |->
                            IF x = t.alias THEN t.name ELSE m1[x]]
         IN  BuildAliasMap(Tail(tables), m2)

EmptyMap == [x \in {} |-> ""]

TableAllowed(t) == t \in ALLOWED_TABLES

\* the verdict on one column reference: "" when it passes
ColumnVerdict(col, alias_map, select_aliases, subquery_aliases) ==
    IF col.table = ""
    THEN IF col.name \in select_aliases THEN ""
         ELSE IF ~(\E t \in DOMAIN ALLOWED_COLUMNS : col.name \in ALLOWED_COLUMNS[t])
              THEN "Bare column is not allowed."
              ELSE ""
    ELSE IF col.table \notin DOMAIN alias_map
         THEN IF col.table \in subquery_aliases THEN ""
              ELSE "Unknown table/alias used in column."
         ELSE IF alias_map[col.table] \notin DOMAIN ALLOWED_COLUMNS
              THEN "Table has no allowed-column config."
              ELSE IF col.name \notin ALLOWED_COLUMNS[alias_map[col.table]]
                   THEN "Column is not allowed."
                   ELSE ""

\* the loop over ast.find_all(exp.Column): the first verdict that is not ""
\* is raised
CheckColumns(sql, verdict) ==
    IF \E i \in DOMAIN verdict : verdict[i] # ""
    THEN Raised("SQLValidationError",
                verdict[CHOOSE i \in DOMAIN verdict :
                            verdict[i] # "" /\ \A j \in 1..(i - 1) : verdict[j] = ""])
    ELSE Returned(sql)

ColumnVerdicts(cols, alias_map, select_aliases, subquery_aliases) ==
    [i \in DOMAIN cols |->
        ColumnVerdict(cols[i], alias_map, select_aliases, subquery_aliases)]

\* the loop over the table names, then the loop over the columns
CheckTablesAndColumns(sql, ast, tabs) ==
    IF \E i \in DOMAIN tabs : ~TableAllowed(tabs[i].name)
    THEN Raised("SQLValidationError", "Table is not in the allowed whitelist.")
    ELSE CheckColumns(sql, ColumnVerdicts(find_all_Column(ast),
                                          BuildAliasMap(tabs, EmptyMap),
                                          _collect_select_aliases(ast),
                                          _collect_subquery_aliases(ast)))

GuardParsed(sql, p) ==
    IF ~p.ok THEN Raised("ParseError", "sqlglot parse error")
    ELSE CheckTablesAndColumns(sql, p.node, find_all_Table(p.node))

_guard_tables_and_columns(sql) == GuardParsed(sql, parse_one(sql))

(***************************************************************************)
(* pre_execution_validation.py : _enforce_limit                            *)
(***************************************************************************)
HasLimitTest(raw) == re_search_LIMIT(raw)

\* raw = sql.strip(); if raw.endswith(";"): raw = raw[:-1].strip()
WithoutTerminator(raw) == IF endswith_semi(raw) THEN strip(Front(raw)) ELSE raw

\* the branches of _enforce_limit once raw has been parsed into p
EnforceParsed(raw, p) ==
    IF HasLimitTest(raw)
    THEN IF ~p.ok THEN Raised("ParseError", "sqlglot parse error")
         ELSE Returned(strip(Gen(p.node)) \o <<";">>)
    ELSE IF ~p.ok
    THEN Raised("SQLValidationError", "SQL parse error while enforcing LIMIT")
    ELSE IF p.node.kind # "Select"
    THEN Raised("SQLValidationError", "Top-level query must be a SELECT.")
    ELSE IF find_all_AggFunc(p.node)
    THEN Returned(strip(Gen(p.node)) \o <<";">>)
    ELSE Returned(strip(Gen(p.node)) \o <<"LIMIT", ToString(default_limit), ";">>)

EnforceRaw(raw) == EnforceParsed(raw, parse_one(raw))

_enforce_limit(sql) == EnforceRaw(WithoutTerminator(strip(sql)))

(***************************************************************************)
(* pre_execution_validation.py : clean_and_validate_sql                    *)
(* The result carries debug["checks_applied"] as it stands when the call   *)
(* returns or raises.                                                      *)
(***************************************************************************)
WithChecks(r, c) ==
    [ok |-> r.ok, exc |-> r.exc, reason |-> r.reason, sql |-> r.sql, checks |-> c]

\* 3) and 4): the whitelist stage has given s3
ValidateLimit(cleaned, s3) ==
    IF ~s3.ok
    THEN WithChecks(s3, <<"clean_single_statement", "keyword_guard", "table_column_whitelist">>)
    ELSE WithChecks(_enforce_limit(cleaned),
                    <<"clean_single_statement", "keyword_guard", "table_column_whitelist",
                      "limit_enforcer">>)

\* a pipeline that goes on to the whitelist stage after the keyword guard
\* has rejected
ValidateWhitelist_afterRejection(cleaned, s2) ==
    ValidateLimit(cleaned, _guard_tables_and_columns(cleaned))

\* 2) and 3): the keyword guard has given s2
ValidateWhitelist(cleaned, s2) ==
    IF ~s2.ok THEN WithChecks(s2, <<"clean_single_statement", "keyword_guard">>)
    ELSE ValidateLimit(cleaned, _guard_tables_and_columns(cleaned))

\* 1) and 2): the cleaning stage has given s1
ValidateKeywords(s1) ==
    IF ~s1.ok THEN WithChecks(s1, <<"clean_single_statement">>)
    ELSE ValidateWhitelist(s1.sql, _cheap_keyword_guard(s1.sql))

clean_and_validate_sql(sql) == ValidateKeywords(_clean_sql_one_statement(sql))

(***************************************************************************)
(* db.py : _remove_limit_clause and run_select                             *)
(***************************************************************************)
\* re.sub(r'\s*LIMIT\s+\d+\s*;?\s*$', '', sql, IGNORECASE)
re_sub_trailing_limit(sql) ==
    LET r == rstrip(sql)
        b == IF endswith_semi(r) THEN rstrip(Front(r)) ELSE r
    IN  IF Len(b) >= 2 /\ Upper(b[Len(b) - 1]) = "LIMIT" /\ b[Len(b)] \in Numbers
        THEN rstrip(SubSeq(b, 1, Len(b) - 2))
        ELSE sql

\* a limit removal that only sees to the final ';'
_remove_limit_clause_kept(sql) ==
    LET cleaned == rstrip(sql) IN
    IF endswith_semi(cleaned) THEN cleaned ELSE cleaned \o <<";">>

_remove_limit_clause(sql) ==
    LET cleaned == rstrip(re_sub_trailing_limit(sql)) IN
    IF endswith_semi(cleaned) THEN cleaned ELSE cleaned \o <<";">>

\* final_sql: the text handed to conn.execute
FinalSql(safe_sql, preserve_limit) ==
    IF preserve_limit THEN safe_sql ELSE _remove_limit_clause(safe_sql)

\* a run_select that executes the caller's text when the guardrail rejects it
Unguarded(query, v, preserve_limit) ==
    IF ~v.ok THEN Returned(query) ELSE Returned(FinalSql(v.sql, preserve_limit))

\* run_select once the guardrail has given v: SQLValidationError becomes
\* ValueError, any other exception leaves as it is
Guarded(query, v, preserve_limit) ==
    IF ~v.ok
    THEN IF v.exc = "SQLValidationError"
         THEN Raised("ValueError", "Invalid SQL blocked by guardrails")
         ELSE Raised(v.exc, v.reason)
    ELSE Returned(FinalSql(v.sql, preserve_limit))

\* run_select up to the point where the engine is reached: the exception it
\* raises, or the text it hands to conn.execute
run_select(query, preserve_limit) ==
    Guarded(query, clean_and_validate_sql(query), preserve_limit)

\* what the registry engine may answer to a statement
EngineOutcomes == {"rows", "no_rows", "ProgrammingError", "OperationalError"}

(***************************************************************************)
(* Candidate SQL texts: what a caller or the text-generation service may   *)
(* hand to the guardrail.                                                  *)
(***************************************************************************)
AliasOf(k) == CASE k = 0 -> "a" [] k = 1 -> "b" [] k = 2 -> "c" [] OTHER -> "d"

JoinTables == {"properties", "property_addresses", "pg_shadow"}

\* FROM clauses with exactly j joins; the first table has alias a
RECURSIVE FromChains(_)
FromChains(j) ==
    IF j = 0
    THEN {<<"FROM", t, "a">> : t \in {"properties", "pg_shadow"}}
    ELSE {f \o <<"JOIN", t, AliasOf(j), "ON", "a", ".", "id", "=", AliasOf(j), ".", "id">>
            : f \in FromChains(j - 1),
              t \in IF j = 1 THEN JoinTables ELSE {"properties"}}

FromOpts ==
    {<<"FROM", "properties">>,
     <<"FROM", "properties", "AS", "p">>,
     <<"FROM", "(", "SELECT", "id", "FROM", "properties", ")", "AS", "latest">>}
    \cup UNION {FromChains(j) : j \in 0..MaxJoins}

\* subqueries nested at most n deep
RECURSIVE Subs(_)
Subs(n) ==
    IF n = 0 THEN {}
    ELSE {<<"SELECT">> \o c \o <<"FROM">> \o t \o l
            : c \in {<<"a", ".", "property_id">>, <<"MAX", "(", "property_id", ")">>},
              t \in {<<"property_addresses", "a">>, <<"pg_shadow", "b">>},
              l \in {<<>>, <<"LIMIT", "5">>}}
         \cup {<<"SELECT", "a", ".", "property_id", "FROM", "property_addresses", "a",
                 "WHERE", "a", ".", "id", "IN", "(">> \o s \o <<")">> : s \in Subs(n - 1)}

WhereOpts ==
    {<<>>}
    \cup {<<"WHERE", "file_name", "=", v>> : v \in Literals}
    \cup {<<"WHERE", "a", ".", "id", "IN", "(">> \o q \o <<")">> : q \in Subs(MaxNest)}

ItemOpts ==
    {<<"id">>, <<"a", ".", "pra">>, <<"latest", ".", "id">>, <<"COUNT", "(", "*", ")">>,
     <<"passwd">>, <<"id", "AS", "val", ",", "p", ".", "created_at">>}

LimitOpts == {<<>>, <<"LIMIT", "5">>, <<"limit", "1">>}

\* every select list over every FROM clause, and every WHERE and LIMIT clause
\* over one aliased table
Statements ==
    {<<"SELECT">> \o i \o f : i \in ItemOpts, f \in FromOpts}
    \cup {<<"SELECT">> \o i \o <<"FROM", "properties", "a">> \o w \o l
            : i \in {<<"id">>, <<"a", ".", "pra">>, <<"COUNT", "(", "*", ")">>},
              w \in WhereOpts, l \in LimitOpts}

\* the same statement as the service may wrap it
Wrapped(q) ==
    {q,
     <<"select">> \o Tail(q),
     <<"<fence>sql", " ">> \o q \o <<";", " ", "<fence>">>,
     <<" ">> \o q \o <<";", ";">>,
     q \o <<";", "SELECT", "passwd", "FROM", "pg_shadow">>}

OtherTexts ==
    {<<>>, <<" ">>, <<"<fence>sql", "<fence>">>,
     <<"SELECT", "FROM">>,
     <<"SELECT", "id", "FROM", "properties", "WHERE", "file_name", "=", "'a", ";">>,
     <<"SEL<fence>ECT", "id", "FROM", "properties">>,
     <<"SELECTX", "id", "FROM", "properties">>,
     <<"SELECTX">>,
     <<"DE<fence>LETE", "FROM", "properties">>,
     <<"delete", "FROM", "properties">>,
     <<"DROP", "properties", ";">>,
     <<"WITH", "latest", "AS", "(", "SELECT", "id", "FROM", "properties", ")",
       "SELECT", "id", "FROM", "latest">>,
     <<"(", "SELECT", "id", "FROM", "properties", ")">>,
     <<"SELECT", "id", "FROM", "properties", "UNION", "SELECT", "id", "FROM", "persons">>,
     <<"SELECT", "id", "FROM", "properties", "UNION", "SELECT", "id", "FROM", "persons",
       "LIMIT", "5">>,
     <<"SELECT", "id", "FROM", "properties", ";", "SELECT", "FROM">>,
     <<"SELECT", "name", "AS", "val", "FROM", "persons", "WHERE", "val", "=", "'x'">>,
     <<"SELECT", "a", ".", "plot_no", "FROM", "properties", "a", "WHERE", "a", ".", "id",
       "IN", "(", "SELECT", "a", ".", "property_id", "FROM", "property_addresses", "a", ")">>,
     <<"SELECT", "a", ".", "pra", ",", "b", ".", "plot_no", "FROM", "properties", "a",
       "JOIN", "properties", "b", "ON", "a", ".", "id", "=", "b", ".", "id">>,
     <<"id">>}

GuardInputs == UNION {Wrapped(q) : q \in Statements} \cup OtherTexts

(***************************************************************************)
(* State                                                                   *)
(***************************************************************************)
VARIABLES
    guard,        \* one guardrail call and its repetition on its own output
    rs_call,      \* the last run_select call
    engine_log,   \* every text handed to the registry engine, in order, with the
                  \* number and the argument of the run_select call that sent it
    loop,         \* validate_and_maybe_regenerate_sql: its locals and position
    pc,           \* position of the turn in the graph
    state,        \* ChatbotState fields of the turn
    chat,         \* PropertyChatbotGraph: the wizard, the registry and the turn
                  \* in progress (the message, the node reached, what the
                  \* turn has done)
    repairs,      \* repair requests sent to the service, per requesting node
    memory,       \* ContextMemory: focus_property and the entity lists
    standalone,   \* the standalone question and its entity bundle in
                  \* _postprocess_standalone_question
    turns,        \* run() calls in progress on one PropertyChatbotGraph
    collection    \* HistoryManager: the documents of the history collection
                  \* and the last history loaded from it

vars == <<guard, rs_call, engine_log, loop, pc, state, chat, repairs, memory,
          standalone, turns, collection>>

\* a part of the program that takes no part in the specification at hand
Off == [pc |-> "off"]

\* no repair request sent yet
NoRepairs == [generate_sql_node |-> 0, execute_sql |-> 0, caller |-> 0]

Elsewhere == memory = Off /\ standalone = Off /\ turns = Off /\ collection = Off

NoResult == [ok |-> FALSE, exc |-> "", reason |-> "", sql |-> NoText, checks |-> <<>>]

NoCall == [n |-> 0, query |-> NoText, preserve_limit |-> FALSE, sent |-> NoText,
           raised |-> "", outcome |-> ""]

GuardIdle == [pc |-> "idle", sql |-> NoText, first |-> NoResult, second |-> NoResult]

\* locals of the repair loop; generated, validations and llm_calls record what
\* the loop has done: the texts the service returned, the guardrail calls and
\* the service calls made
LoopIdle ==
    [pc |-> "idle", owner |-> "", sql_query |-> NoText, question |-> "",
     attempt |-> 0, max_retries |-> 0, attempts_info |-> <<>>, last_error |-> None,
     result |-> NoResult, generated |-> <<>>, validations |-> 0, llm_calls |-> 0]

\* ChatbotState as run() builds it; failed names the node whose failure branch
\* wrote the state last
State0 == [sql_query |-> NoText, sql_rows |-> "empty", error |-> None, failed |-> ""]

\* no conversation
NoChat == [node |-> "off"]

(***************************************************************************)
(* The guardrail applied to one text (clean_and_validate_sql), applied     *)
(* again to its own output, and run_select on the same text                *)
(***************************************************************************)
InitGuard ==
    /\ guard \in {[GuardIdle EXCEPT !.pc = "input", !.sql = q] : q \in GuardInputs}
    /\ rs_call = NoCall
    /\ engine_log = <<>>
    /\ loop = LoopIdle
    /\ pc = "idle"
    /\ state = State0
    /\ chat = NoChat
    /\ repairs = NoRepairs
    /\ Elsewhere

Validate ==
    /\ guard.pc = "input"
    /\ guard' = [guard EXCEPT !.pc = "validated",
                              !.first = clean_and_validate_sql(guard.sql)]
    /\ UNCHANGED <<rs_call, engine_log, loop, pc, state, chat, repairs, memory,
                 standalone, turns,
                   collection>>

Revalidate ==
    /\ guard.pc = "validated"
    /\ guard.first.ok
    /\ guard' = [guard EXCEPT !.pc = "revalidated",
                              !.second = clean_and_validate_sql(guard.first.sql)]
    /\ UNCHANGED <<rs_call, engine_log, loop, pc, state, chat, repairs, memory,
                 standalone, turns,
                   collection>>

\* the effect of one run_select call whose validation part gave r: the engine
\* is reached only with the text run_select built, and answers with outcome
RunSelectCall(r, query, preserve_limit, outcome) ==
    /\ rs_call' = [n |-> rs_call.n + 1,
                   query |-> query, preserve_limit |-> preserve_limit,
                   sent |-> r.sql,
                   raised |-> IF r.ok
                              THEN (IF outcome \in {"rows", "no_rows"} THEN "" ELSE outcome)
                              ELSE r.exc,
                   outcome |-> IF r.ok THEN outcome ELSE ""]
    /\ engine_log' = IF r.ok
                     THEN Append(engine_log,
                                 [call |-> rs_call.n + 1, query |-> query, sql |-> r.sql])
                     ELSE engine_log

\* the engine answers only a call that reaches it
OutcomesOf(r) == IF r.ok THEN EngineOutcomes ELSE {""}

RunSelectAnswered(r, query, preserve_limit) ==
    \E outcome \in OutcomesOf(r) : RunSelectCall(r, query, preserve_limit, outcome)

RunSelect ==
    /\ guard.pc = "validated"
    /\ \E preserve_limit \in BOOLEAN :
          RunSelectAnswered(run_select(guard.sql, preserve_limit), guard.sql, preserve_limit)
    /\ guard' = [guard EXCEPT !.pc = "executed"]
    /\ UNCHANGED <<loop, pc, state, chat, repairs, memory, standalone, turns,
                   collection>>

NextGuard == Validate \/ Revalidate \/ RunSelect

SpecGuard == InitGuard /\ [][NextGuard]_vars

(***************************************************************************)
(* The text-generation service (openai_client.py : generate_text) and the  *)
(* first draft (sql_generation.py : clean_sql, generate_sql)               *)
(***************************************************************************)
\* raw completions the service may return
LlmTexts ==
    {<<"<fence>sql", " ", "SELECT", "id", "FROM", "properties", ";", " ", "<fence>">>,
     <<"SELECT", "pra", "FROM", "properties", "LIMIT", "5", ";">>,
     <<"SELECT", "passwd", "FROM", "pg_shadow">>,
     <<"SELECT", "passwd", "FROM", "properties", ";">>,
     <<"SELECT", "FROM">>,
     <<"SELECT", "id", "FROM", "properties", "WHERE", "file_name", "=", "'a;b'">>,
     <<"SELECT", "id", "FROM", "properties", ";", "SELECT", "passwd", "FROM", "pg_shadow">>,
     <<"DROP", "properties", ";">>,
     <<" ">>}

\* the messages of the exceptions the service call may raise
LlmFailures == {"LLM request failed", ""}

\* generate_text: the stripped completion, or the exception of the call
generate_text(raw) == Returned(strip(raw))

LlmReplies ==
    {generate_text(raw) : raw \in LlmTexts} \cup {Raised("LLMError", m) : m \in LlmFailures}

\* sql.split(";")[0] + ";" : the text up to the first ';' character, which
\* may stand inside a string literal
SplitAtFirstSemi(sql) ==
    LET k == CHOOSE i \in DOMAIN sql :
                 SemiCount(sql[i]) = 1 /\ \A j \in 1..(i - 1) : SemiCount(sql[j]) = 0
    IN  SubSeq(sql, 1, k - 1) \o (IF sql[k] = ";" THEN <<>> ELSE <<"'a">>) \o <<";">>

clean_sql(response_text) ==
    LET sql  == strip(re_sub_fences(response_text))
        head == IF count_semi(sql) > 0 THEN SplitAtFirstSemi(sql) ELSE sql
    IN  strip(IF endswith_semi(head) THEN head ELSE head \o <<";">>)

(***************************************************************************)
(* pre_execution_validation.py : validate_and_maybe_regenerate_sql         *)
(* One step per guardrail call and one per call of the service.            *)
(***************************************************************************)
\* a loop given one retry more than its caller asked for
StartLoop_oneMore(owner, sql_query, max_retries) ==
    [LoopIdle EXCEPT !.pc = "validate", !.owner = owner, !.sql_query = sql_query,
                     !.max_retries = max_retries + 1]

StartLoop(owner, sql_query, max_retries) ==
    [LoopIdle EXCEPT !.pc = "validate", !.owner = owner, !.sql_query = sql_query,
                     !.max_retries = max_retries]

AttemptOk(n, v, original_sql) ==
    [attempt |-> n, ok |-> TRUE, error |-> None, original_sql |-> original_sql,
     final_sql |-> v.sql, checks_applied |-> v.checks]

AttemptFailed(n, error, original_sql) ==
    [attempt |-> n, ok |-> FALSE, error |-> error, original_sql |-> original_sql,
     final_sql |-> NoText, checks_applied |-> <<>>]

\* an exit test that lets one more retry through
RetriesExhausted_late(attempt, max_retries) == attempt > max_retries

\* if attempt >= max_retries: raise
RetriesExhausted(attempt, max_retries) == attempt >= max_retries

\* the try block of one iteration: success returns, SQLValidationError is
\* recorded and either re-raised or repaired, any other exception leaves the
\* function as it is
LoopAfterValidation(v) ==
    IF v.ok
    THEN [loop EXCEPT !.pc = "returned", !.result = v, !.validations = @ + 1,
                      !.attempts_info =
                          Append(@, AttemptOk(loop.attempt + 1, v, loop.sql_query))]
    ELSE IF v.exc = "SQLValidationError"
    THEN [loop EXCEPT !.pc = IF RetriesExhausted(loop.attempt, loop.max_retries)
                             THEN "raised" ELSE "regenerate",
                      !.result = v, !.validations = @ + 1, !.last_error = v.reason,
                      !.attempts_info =
                          Append(@, AttemptFailed(loop.attempt + 1, v.reason,
                                                  loop.sql_query))]
    ELSE [loop EXCEPT !.pc = "raised", !.result = v, !.validations = @ + 1]

LoopValidate ==
    /\ loop.pc = "validate"
    /\ loop' = LoopAfterValidation(clean_and_validate_sql(loop.sql_query))
    /\ UNCHANGED <<guard, rs_call, engine_log, pc, state, chat, repairs, memory,
                 standalone, turns,
                   collection>>

\* the node on whose behalf the loop runs
RequestingNode(owner) ==
    IF owner \in {"generate_sql_node:first", "generate_sql_node:second"}
    THEN "generate_sql_node" ELSE owner

\* one more llm.generate_text call asking for a repaired statement
RepairRequested(node) == [repairs EXCEPT ![node] = @ + 1]

\* sql_query = llm.generate_text(...) and the start of the next iteration
LoopRegenerate ==
    /\ loop.pc = "regenerate"
    /\ \E reply \in LlmReplies :
          loop' =
             IF reply.ok
             THEN [loop EXCEPT !.pc = "validate", !.sql_query = reply.sql,
                               !.attempt = @ + 1, !.llm_calls = @ + 1,
                               !.generated = Append(@, reply.sql)]
             ELSE [loop EXCEPT !.pc = "raised", !.result = WithChecks(reply, <<>>),
                               !.llm_calls = @ + 1]
    /\ repairs' = RepairRequested(RequestingNode(loop.owner))
    /\ UNCHANGED <<guard, rs_call, engine_log, pc, state, chat, memory, standalone, turns,
                   collection>>

LoopEnded == loop.pc \in {"returned", "raised"}

\* the loop called on its own, with any retry budget
InitRepair ==
    /\ \E raw \in LlmTexts, n \in 0..MaxRetriesBound :
          loop = StartLoop("caller", generate_text(raw).sql, n)
    /\ guard = GuardIdle
    /\ rs_call = NoCall
    /\ engine_log = <<>>
    /\ pc = "idle"
    /\ state = State0
    /\ chat = NoChat
    /\ repairs = NoRepairs
    /\ Elsewhere

NextRepair == LoopValidate \/ LoopRegenerate

SpecRepair == InitRepair /\ [][NextRepair]_vars

(***************************************************************************)
(* graph.py : generate_sql_node and execute_sql of one property_talk turn  *)
(* One step per call of the service, of the repair loop and of run_select. *)
(***************************************************************************)
ERROR_UNSAFE       == "-- ERROR: unsafe SQL blocked:"
ERROR_AFTER_REPAIR == "-- ERROR after repair:"
ERROR_GENERIC      == "-- ERROR:"

\* f"-- ERROR...: {e}"
Placeholder(marker, message) == <<marker, message>>

\* a test that takes no error value for an error
Truthy_never(error) == FALSE

\* if state.get("error")
Truthy(error) == error # None /\ error # ""

\* generate_sql_node, 1): the first draft
generate_sql_draft ==
    /\ pc = "generate_sql"
    /\ \E reply \in LlmReplies :
          IF reply.ok
          THEN /\ loop' = StartLoop("generate_sql_node:first", clean_sql(reply.sql), 1)
               /\ pc' = "first_loop"
          ELSE /\ loop' = loop
               /\ pc' = "raised:generate_sql"
    /\ UNCHANGED <<guard, rs_call, engine_log, state, chat, repairs, memory, standalone, turns,
                   collection>>

\* generate_sql_node, 2): the first loop has returned or raised
generate_sql_first_loop_end ==
    /\ pc = "first_loop"
    /\ LoopEnded
    /\ IF loop.pc = "returned"
       THEN /\ state' = [state EXCEPT !.sql_query = loop.result.sql, !.error = None]
            /\ pc' = "execute_sql"
       ELSE /\ state' = state
            /\ pc' = "direct_repair"
    /\ UNCHANGED <<guard, rs_call, engine_log, loop, chat, repairs, memory, standalone, turns,
                   collection>>

\* generate_sql_node, 3): the repair request made in the except block
generate_sql_direct_repair ==
    /\ pc = "direct_repair"
    /\ \E reply \in LlmReplies :
          IF reply.ok
          THEN /\ loop' = StartLoop("generate_sql_node:second", reply.sql, 1)
               /\ pc' = "second_loop"
          ELSE /\ loop' = loop
               /\ pc' = "raised:direct_repair"
    /\ repairs' = RepairRequested("generate_sql_node")
    /\ UNCHANGED <<guard, rs_call, engine_log, state, chat, memory, standalone, turns,
                   collection>>

\* generate_sql_node, 4): the second loop has returned or raised
generate_sql_second_loop_end ==
    /\ pc = "second_loop"
    /\ LoopEnded
    /\ state' = IF loop.pc = "returned"
                THEN [state EXCEPT !.sql_query = loop.result.sql, !.error = None]
                ELSE [state EXCEPT !.sql_query = Placeholder(ERROR_UNSAFE, loop.result.reason),
                                   !.error = loop.result.reason,
                                   !.failed = "generate_sql_node"]
    /\ pc' = "execute_sql"
    /\ UNCHANGED <<guard, rs_call, engine_log, loop, chat, repairs, memory, standalone, turns,
                   collection>>

ExecutionFailed(marker, message) ==
    [state EXCEPT !.sql_rows = "empty", !.sql_query = Placeholder(marker, message),
                  !.error = message, !.failed = "execute_sql"]

ExecutionSucceeded(st, outcome) ==
    [st EXCEPT !.sql_rows = IF outcome = "rows" THEN "rows" ELSE "empty", !.error = None]

\* the first run_select call of execute_sql and the except clause it ends in
FirstRun(r) ==
    \E outcome \in OutcomesOf(r) :
       /\ RunSelectCall(r, state.sql_query, FALSE, outcome)
       /\ IF ~r.ok
          THEN state' = ExecutionFailed(ERROR_GENERIC, r.reason) /\ pc' = "done"
          ELSE IF outcome = "ProgrammingError"
          THEN state' = state /\ pc' = "execution_repair"
          ELSE IF outcome = "OperationalError"
          THEN state' = ExecutionFailed(ERROR_GENERIC, outcome) /\ pc' = "done"
          ELSE state' = ExecutionSucceeded(state, outcome) /\ pc' = "done"

\* execute_sql up to the end of its first run_select call
execute_sql_run ==
    /\ pc = "execute_sql"
    /\ IF Truthy(state.error)
       THEN /\ state' = [state EXCEPT !.sql_rows = "empty"]
            /\ pc' = "done"
            /\ UNCHANGED <<rs_call, engine_log>>
       ELSE FirstRun(run_select(state.sql_query, FALSE))
    /\ UNCHANGED <<guard, loop, chat, repairs, memory, standalone, turns, collection>>

\* execute_sql, except ProgrammingError: the repair request
execute_sql_repair ==
    /\ pc = "execution_repair"
    /\ \E reply \in LlmReplies :
          IF reply.ok
          THEN /\ loop' = StartLoop("execute_sql", reply.sql, 1)
               /\ pc' = "execution_loop"
          ELSE /\ loop' = loop
               /\ pc' = "raised:execution_repair"
    /\ repairs' = RepairRequested("execute_sql")
    /\ UNCHANGED <<guard, rs_call, engine_log, state, chat, memory, standalone, turns,
                   collection>>

\* execute_sql, the inner try: the loop has ended; on success the repaired
\* text is stored and run
\* the second run_select call of execute_sql, inside the inner try
SecondRun(r) ==
    \E outcome \in OutcomesOf(r) :
       /\ RunSelectCall(r, loop.result.sql, FALSE, outcome)
       /\ state' =
             IF ~r.ok THEN ExecutionFailed(ERROR_AFTER_REPAIR, r.reason)
             ELSE IF outcome \in {"ProgrammingError", "OperationalError"}
             THEN ExecutionFailed(ERROR_AFTER_REPAIR, outcome)
             ELSE ExecutionSucceeded([state EXCEPT !.sql_query = loop.result.sql], outcome)

execute_sql_rerun ==
    /\ pc = "execution_loop"
    /\ LoopEnded
    /\ IF loop.pc = "raised"
       THEN /\ state' = ExecutionFailed(ERROR_AFTER_REPAIR, loop.result.reason)
            /\ UNCHANGED <<rs_call, engine_log>>
       ELSE SecondRun(run_select(loop.result.sql, FALSE))
    /\ pc' = "done"
    /\ UNCHANGED <<guard, loop, chat, repairs, memory, standalone, turns, collection>>

InitTurn ==
    /\ pc = "generate_sql"
    /\ state = State0
    /\ chat = NoChat
    /\ loop = LoopIdle
    /\ guard = GuardIdle
    /\ rs_call = NoCall
    /\ engine_log = <<>>
    /\ repairs = NoRepairs
    /\ Elsewhere

NextTurn ==
    \/ generate_sql_draft
    \/ LoopValidate
    \/ LoopRegenerate
    \/ generate_sql_first_loop_end
    \/ generate_sql_direct_repair
    \/ generate_sql_second_loop_end
    \/ execute_sql_run
    \/ execute_sql_repair
    \/ execute_sql_rerun

SpecTurn == InitTurn /\ [][NextTurn]_vars

(***************************************************************************)
(* Messages.  A message is the sequence of its words (runs of whitespace   *)
(* are not kept); a plot or road value is a sequence of words as well.     *)
(* What Python's str and re operations find inside one word is tabulated   *)
(* for the words of the model.                                             *)
(***************************************************************************)
Messages ==
    {<<>>,
     <<"hello">>,
     <<"who", "owns", "plot", "30">>,
     <<"show", "the", "map", "of", "plot", "30", "road", "14">>,
     <<"note", "summary">>,
     <<"note", "summary", "for", "30/14">>,
     <<"30">>,
     <<"14">>,
     <<"DELETE", "plot", "map">>,
     <<"note", "summary", "map", "30/14">>,
     <<"generate", "not", "summary">>,
     <<"plot", "map">>}

\* str.lower() of one word
Lower(w) ==
    CASE w = "DELETE" -> "delete"
      [] w = "Neelam" -> "neelam"
      [] w = "Kohli"  -> "kohli"
      [] w = "Who"    -> "who"
      [] w = "Bagh"   -> "bagh"
      [] w = "East"   -> "east"
      [] OTHER -> w

\* the leading run [a-z0-9]+ of a lower-case word ("" when there is none)
AlnumHead(w) == CASE w = "30/14" -> "30" [] OTHER -> w

\* the leading run [a-z]+ of a lower-case word
AlphaHead(w) == IF w \in {"30", "14", "31", "30/14"} THEN "" ELSE w

\* \d{1,4} matches the whole word
IsDigits(w) == w \in {"30", "14", "31"}

\* the two sides of a word of the form X/Y, <<>> for any other word
SlashPair(w) == IF w = "30/14" THEN <<"30", "14">> ELSE <<>>

(***************************************************************************)
(* query_classifier.py : classify_property_query                           *)
(***************************************************************************)
MUTATION_WORDS ==
    {"delete", "update", "append", "remove", "drop", "insert", "edit", "change", "modify"}

\* re.search(mutation_pattern, q): a whole word of q is a mutation word
MatchesMutationPattern(q) == \E i \in DOMAIN q : Lower(q[i]) \in MUTATION_WORDS

\* the property keywords that occur in one word of q
PropertyKeywordsIn(w) ==
    CASE Lower(w) = "plot" -> {"plot"}
      [] Lower(w) = "road" -> {"road"}
      [] OTHER -> {}

\* any(kw in q for kw in property_keywords)
MatchesPropertyKeyword(q) == \E i \in DOMAIN q : PropertyKeywordsIn(q[i]) # {}

\* the labels the service may put in its JSON answer: "" stands for an
\* answer without a label (generate_json returns {} for unparseable text),
\* "irrelevant" for a label that is none of the three
LlmLabels == {"small_talk", "irrelevant_question", "property_talk", "", "irrelevant"}

\* [ok, label, consulted]: consulted tells whether llm.generate_json was
\* called; ~ok is the exception of that call
Classified(label, consulted) == [ok |-> TRUE, label |-> label, consulted |-> consulted]

\* a classifier that looks for property keywords before mutation words
classify_property_query_keywordsFirst(user_query, reply) ==
    IF MatchesPropertyKeyword(user_query) THEN Classified("property_talk", FALSE)
    ELSE IF MatchesMutationPattern(user_query) THEN Classified("irrelevant_question", FALSE)
    ELSE IF ~reply.ok THEN [ok |-> FALSE, label |-> "", consulted |-> TRUE]
    ELSE Classified(IF reply.label = "" THEN "property_talk" ELSE reply.label, TRUE)

classify_property_query(user_query, reply) ==
    IF MatchesMutationPattern(user_query) THEN Classified("irrelevant_question", FALSE)
    ELSE IF MatchesPropertyKeyword(user_query) THEN Classified("property_talk", FALSE)
    ELSE IF ~reply.ok THEN [ok |-> FALSE, label |-> "", consulted |-> TRUE]
    ELSE Classified(IF reply.label = "" THEN "property_talk" ELSE reply.label, TRUE)

\* what llm.generate_json may give the classifier
LabelReplies ==
    {[ok |-> TRUE, label |-> l] : l \in LlmLabels} \cup {[ok |-> FALSE, label |-> ""]}

(***************************************************************************)
(* map.py : parse_plot_road_from_text                                      *)
(***************************************************************************)
\* the words matched by (?:\s+[a-z]+)* from word j on
RECURSIVE AlphaRun(_, _)
AlphaRun(s, j) ==
    IF j \in DOMAIN s /\ AlphaHead(Lower(s[j])) # ""
    THEN <<AlphaHead(Lower(s[j]))>>
         \o (IF AlphaHead(Lower(s[j])) = Lower(s[j]) THEN AlphaRun(s, j + 1) ELSE <<>>)
    ELSE <<>>

\* the first word k that ends with key and is followed by a word that
\* begins with [a-z0-9]; 0 when there is none
FirstKeyed(s, key) ==
    IF \E i \in DOMAIN s : Lower(s[i]) = key /\ i + 1 \in DOMAIN s
                           /\ AlnumHead(Lower(s[i + 1])) # ""
    THEN CHOOSE i \in DOMAIN s :
            /\ Lower(s[i]) = key /\ i + 1 \in DOMAIN s /\ AlnumHead(Lower(s[i + 1])) # ""
            /\ \A j \in 1..(i - 1) :
                  ~(Lower(s[j]) = key /\ AlnumHead(Lower(s[j + 1])) # "")
    ELSE 0

\* re.search(r"plot\s+([a-z0-9]+(?:\s+[a-z]+)?)", s) : group 1 at word k + 1
PlotGroup(s, k) ==
    IF k = 0 THEN <<>>
    ELSE <<AlnumHead(Lower(s[k + 1]))>>
         \o (IF AlnumHead(Lower(s[k + 1])) = Lower(s[k + 1]) /\ k + 2 \in DOMAIN s
                /\ AlphaHead(Lower(s[k + 2])) # ""
             THEN <<AlphaHead(Lower(s[k + 2]))>> ELSE <<>>)

\* re.search(r"road\s+([a-z0-9]+(?:\s+[a-z]+)*)", s) : group 1 at word k + 1
RoadGroup(s, k) ==
    IF k = 0 THEN <<>>
    ELSE <<AlnumHead(Lower(s[k + 1]))>>
         \o (IF AlnumHead(Lower(s[k + 1])) = Lower(s[k + 1]) THEN AlphaRun(s, k + 2)
             ELSE <<>>)

\* the first word of the form X/Y; 0 when there is none
FirstSlashPair(s) ==
    IF \E i \in DOMAIN s : SlashPair(Lower(s[i])) # <<>>
    THEN CHOOSE i \in DOMAIN s :
            SlashPair(Lower(s[i])) # <<>>
            /\ \A j \in 1..(i - 1) : SlashPair(Lower(s[j])) = <<>>
    ELSE 0

\* the first word after map (or after map of) that starts two words
\* [a-z0-9]+ \s+ [a-z0-9]+ ; 0 when there is none
PairAt(s, j) ==
    j \in DOMAIN s /\ j + 1 \in DOMAIN s
    /\ AlnumHead(Lower(s[j])) = Lower(s[j]) /\ AlnumHead(Lower(s[j + 1])) # ""

MapPairStart(s, i) ==
    IF i + 1 \in DOMAIN s /\ Lower(s[i + 1]) = "of" /\ PairAt(s, i + 2) THEN i + 2
    ELSE IF PairAt(s, i + 1) THEN i + 1
    ELSE 0

FirstMapPair(s) ==
    IF \E i \in DOMAIN s : Lower(s[i]) = "map" /\ MapPairStart(s, i) # 0
    THEN MapPairStart(s, CHOOSE i \in DOMAIN s :
                            /\ Lower(s[i]) = "map" /\ MapPairStart(s, i) # 0
                            /\ \A j \in 1..(i - 1) :
                                  ~(Lower(s[j]) = "map" /\ MapPairStart(s, j) # 0))
    ELSE 0

PlotRoad(plot, road) == [plot |-> plot, road |-> road]

\* 3) the pattern "map X Y": j is the word X, 0 when the pattern fails
ParseMapPair(s, pr, j) ==
    IF (pr.plot # <<>> /\ pr.road # <<>>) \/ j = 0
       \/ ~(\E i \in DOMAIN s : Lower(s[i]) = "map")
    THEN pr
    ELSE PlotRoad(IF pr.plot = <<>> THEN <<Lower(s[j])>> ELSE pr.plot,
                  IF pr.road = <<>> THEN <<AlnumHead(Lower(s[j + 1]))>> ELSE pr.road)

\* 2) the pattern "X/Y": k is the word X/Y, 0 when the pattern fails
ParseSlashPair(s, pr, k) ==
    IF (pr.plot # <<>> /\ pr.road # <<>>) \/ k = 0 THEN pr
    ELSE PlotRoad(IF pr.plot = <<>> THEN <<SlashPair(Lower(s[k]))[1]>> ELSE pr.plot,
                  IF pr.road = <<>>
                  THEN <<SlashPair(Lower(s[k]))[2]>> \o AlphaRun(s, k + 1)
                  ELSE pr.road)

\* [plot, road]; <<>> stands for None
parse_plot_road_from_text(text) ==
    IF text = <<>> THEN PlotRoad(<<>>, <<>>)
    ELSE ParseMapPair(text,
            ParseSlashPair(text,
                PlotRoad(PlotGroup(text, FirstKeyed(text, "plot")),
                         RoadGroup(text, FirstKeyed(text, "road"))),
                FirstSlashPair(text)),
            FirstMapPair(text))

(***************************************************************************)
(* graph.py : _is_map_trigger, _is_note_summary_trigger,                   *)
(* route_by_classification                                                 *)
(***************************************************************************)
\* re.search(r"\bmap\s+(\d{1,4})\s*[/ ]\s*(\d{1,4})\b", base)
MapDigitsRegex(s) ==
    \E i \in DOMAIN s :
        /\ Lower(s[i]) = "map"
        /\ \/ /\ i + 1 \in DOMAIN s
              /\ SlashPair(s[i + 1]) # <<>>
              /\ IsDigits(SlashPair(s[i + 1])[1]) /\ IsDigits(SlashPair(s[i + 1])[2])
           \/ /\ i + 2 \in DOMAIN s
              /\ IsDigits(s[i + 1]) /\ IsDigits(s[i + 2])

_is_map_trigger(text) ==
    /\ text # <<>>
    /\ \E i \in DOMAIN text : Lower(text[i]) = "map"
    /\ \/ \E i \in DOMAIN text : Lower(text[i]) \in {"plot", "road"}
       \/ MapDigitsRegex(text)

\* one of "note summary", "note summar", "note summery" is in base
SimpleNoteTrigger(s) ==
    \E i \in DOMAIN s :
        Lower(s[i]) = "note" /\ i + 1 \in DOMAIN s /\ Lower(s[i + 1]) = "summary"

\* fuzz.partial_ratio(base, phrase) >= threshold for one of the phrases:
\* of the messages of the model without a simple trigger, only the phrase
\* "generate not summary" itself scores that high
PartialRatioTrigger(s) == s = <<"generate", "not", "summary">>

_is_note_summary_trigger(text) ==
    text # <<>> /\ (SimpleNoteTrigger(text) \/ PartialRatioTrigger(text))

\* self.note_flow
NoteFlow(active, step, plot, road) ==
    [active |-> active, step |-> step, plot |-> plot, road |-> road]

\* None where a plot or road value is expected
NoValue == <<None>>

NoteFlowOff == NoteFlow(FALSE, None, NoValue, NoValue)

\* [to, note_flow]: the edge taken and self.note_flow as the function leaves it
Route(to, note_flow) == [to |-> to, note_flow |-> note_flow]

\* a routing by label that takes every label starting with "irrelevant" for
\* a refusal
RouteByLabel_prefix(label, note_flow) ==
    IF label = "small_talk" THEN Route("small_talk", note_flow)
    ELSE IF label \in {"irrelevant_question", "irrelevant"}
    THEN Route("irrelevant", note_flow)
    ELSE Route("property_talk", note_flow)

\* 4) the classifier label
RouteByLabel(label, note_flow) ==
    IF label = "small_talk" THEN Route("small_talk", note_flow)
    ELSE IF label = "irrelevant_question" THEN Route("irrelevant", note_flow)
    ELSE Route("property_talk", note_flow)

\* a note-summary request that starts the wizard whatever the message holds
RouteNote_alwaysStart(pr) == Route("note_start", NoteFlow(TRUE, "plot", NoValue, NoValue))

\* 3) the note-summary request, pr being what parse_plot_road_from_text gives
RouteNote(pr) ==
    IF pr.plot # <<>> /\ pr.road # <<>> THEN Route("note_direct", NoteFlowOff)
    ELSE Route("note_start", NoteFlow(TRUE, "plot", NoValue, NoValue))

\* a routing that looks at the note-summary trigger before the map trigger
route_by_classification_noteFirst(user_q_raw, label, note_flow) ==
    IF note_flow.active /\ note_flow.step = "plot" THEN Route("note_plot", note_flow)
    ELSE IF note_flow.active /\ note_flow.step = "road" THEN Route("note_road", note_flow)
    ELSE IF _is_note_summary_trigger(user_q_raw)
    THEN RouteNote(parse_plot_road_from_text(user_q_raw))
    ELSE IF _is_map_trigger(user_q_raw) THEN Route("map", note_flow)
    ELSE RouteByLabel(label, note_flow)

route_by_classification(user_q_raw, label, note_flow) ==
    IF note_flow.active /\ note_flow.step = "plot" THEN Route("note_plot", note_flow)
    ELSE IF note_flow.active /\ note_flow.step = "road" THEN Route("note_road", note_flow)
    ELSE IF _is_map_trigger(user_q_raw) THEN Route("map", note_flow)
    ELSE IF _is_note_summary_trigger(user_q_raw)
    THEN RouteNote(parse_plot_road_from_text(user_q_raw))
    ELSE RouteByLabel(label, note_flow)

(***************************************************************************)
(* The registry, and the statements graph.py and map.py write themselves   *)
(***************************************************************************)
\* the rows of properties joined with property_addresses: pra = "" is an
\* identifier that is not populated
AddressRows ==
    {[plot_no |-> <<"30">>, road_no |-> <<"14">>, pra |-> p] : p \in {"", "PRA1"}}
    \cup {[plot_no |-> <<"31">>, road_no |-> <<"14">>, pra |-> "PRA3"]}

\* persons.name, and the identifiers for which pbchs_map holds a feature
PersonNames == {<<"neelam", "kohli">>}
MappedPras  == {"PRA1"}

Registries == {r \in SUBSET AddressRows : Cardinality(r) <= MaxRows}

\* a value as a string literal, after value.replace("'", "''") (no value of
\* the model holds a quote character)
Quote(v) ==
    CASE v = <<>>                 -> "''"
      [] v = <<"hello">>          -> "'hello'"
      [] v = <<"30">>             -> "'30'"
      [] v = <<"31">>             -> "'31'"
      [] v = <<"14">>             -> "'14'"
      [] v = <<"30", "road">>     -> "'30 road'"
      [] v = <<"map">>            -> "'map'"
      [] v = <<"note", "summary">> -> "'note summary'"
      [] v = <<"DELETE", "plot", "map">> -> "'DELETE plot map'"
      [] v = <<"generate", "not", "summary">> -> "'generate not summary'"
      [] v = <<"plot", "map">> -> "'plot map'"
      [] v = <<"who", "owns", "plot", "30">> -> "'who owns plot 30'"
      [] v = <<"note", "summary", "for", "30/14">> -> "'note summary for 30/14'"
      [] v = <<"note", "summary", "map", "30/14">> -> "'note summary map 30/14'"
      [] v = <<"show", "the", "map", "of", "plot", "30", "road", "14">>
            -> "'show the map of plot 30 road 14'"

QuotePra(pra) == CASE pra = "PRA1" -> "'PRA1'" [] pra = "PRA2" -> "'PRA2'" [] OTHER -> "'PRA3'"

\* graph.py : sql_distinct of _fuzzy_match_column
sql_distinct(column) ==
    <<"SELECT", "DISTINCT", "TRIM", "(", column, ")", "AS", "val",
      "FROM", "property_addresses",
      "WHERE", column, "IS", "NOT", "NULL",
      "AND", "TRIM", "(", column, ")", "<>", "''",
      "LIMIT", "5000", ";">>

\* graph.py : sql_distinct of _fuzzy_match_person_name
sql_distinct_names ==
    <<"SELECT", "DISTINCT", "TRIM", "(", "name", ")", "AS", "val",
      "FROM", "persons",
      "WHERE", "name", "IS", "NOT", "NULL",
      "AND", "TRIM", "(", "name", ")", "<>", "''",
      "LIMIT", "45000", ";">>

\* graph.py : sql_pra_lookup of collect_road and of note_summary_direct
sql_pra_lookup(plot, road) ==
    <<"SELECT", "p", ".", "pra",
      "FROM", "properties", "p",
      "JOIN", "property_addresses", "pa", "ON", "pa", ".", "property_id", "=", "p", ".", "id",
      "WHERE", "TRIM", "(", "pa", ".", "plot_no", ")", "=", Quote(plot),
      "AND", "TRIM", "(", "pa", ".", "road_no", ")", "=", Quote(road),
      "LIMIT", "5", ";">>

\* map.py : sql of lookup_pra_for_plot_road
sql_map_pra_lookup(plot, road) ==
    <<"SELECT", "p", ".", "pra_",
      "FROM", "properties", "p",
      "JOIN", "property_addresses", "pa", "ON", "pa", ".", "property_id", "=", "p", ".", "id",
      "WHERE", "LOWER", "(", "TRIM", "(", "pa", ".", "plot_no", ")", ")", "=",
               "LOWER", "(", Quote(plot), ")",
      "AND", "LOWER", "(", "TRIM", "(", "pa", ".", "road_no", ")", ")", "=",
             "LOWER", "(", Quote(road), ")",
      "LIMIT", "5", ";">>

\* map.py : sql of fetch_map_for_pra.  The feature expression
\* jsonb_build_object(..., ST_AsGeoJSON(geom)::jsonb, ..., properties) and the
\* test properties->>'pra_id' = ... are written as the columns they read.
sql_fetch_map(pra) ==
    <<"SELECT", "id", ",", "geom", "AS", "feature",
      "FROM", "pbchs_map",
      "WHERE", "properties", "=", QuotePra(pra), ";">>

\* every plot or road value a statement of the model is written from
Values == Messages \cup {<<"31">>, <<"30", "road">>, <<"map">>}

\* run_select up to the engine for each of these statements
DistinctSelected == [column \in {"plot_no", "road_no"} |-> run_select(sql_distinct(column), FALSE)]
NamesSelected == run_select(sql_distinct_names, FALSE)
PraLookupSelected ==
    [plot \in Values, road \in Values |-> run_select(sql_pra_lookup(plot, road), FALSE)]
MapPraLookupSelected ==
    [plot \in Values, road \in Values |-> run_select(sql_map_pra_lookup(plot, road), FALSE)]
MapFetchSelected ==
    [pra \in {"PRA1", "PRA2", "PRA3"} |-> run_select(sql_fetch_map(pra), FALSE)]

\* what the registry holds for each of these statements
DistinctValues(registry, column) == {row[column] : row \in registry}

LookupRows(registry, plot, road) ==
    {[pra |-> row.pra] : row \in {x \in registry : x.plot_no = plot /\ x.road_no = road}}

LowerText(v) == [i \in DOMAIN v |-> Lower(v[i])]

MapLookupRows(registry, plot, road) ==
    {[pra_ |-> row.pra] :
        row \in {x \in registry : /\ LowerText(x.plot_no) = LowerText(plot)
                                 /\ LowerText(x.road_no) = LowerText(road)}}

MapRows(pra) == IF pra \in MappedPras THEN {[id |-> 1, feature |-> "geometry"]} ELSE {}

\* row.get(key)
RowGet(row, key) == IF key \in DOMAIN row THEN row[key] ELSE ""

\* run_select(query) answered by the registry: r is run_select up to the
\* engine, rows what the registry holds for the statement, engine_ok whether
\* the engine answers or fails.  sent lists the statement when it reached
\* the engine.
Answer(kind, r, rows, engine_ok) ==
    IF ~r.ok THEN [ok |-> FALSE, exc |-> r.exc, rows |-> {}, sent |-> <<>>]
    ELSE IF ~engine_ok
    THEN [ok |-> FALSE, exc |-> "OperationalError", rows |-> {}, sent |-> <<kind>>]
    ELSE [ok |-> TRUE, exc |-> "", rows |-> rows, sent |-> <<kind>>]

(***************************************************************************)
(* graph.py : _fuzzy_match_column and _fuzzy_match_person_name             *)
(***************************************************************************)
\* the scores fuzz.WRatio may give the choices: 100 for the value itself,
\* any level for another choice
ScoreLevels == {50, 70, 90}

Scores(value, choices) ==
    {f \in [choices -> ScoreLevels \cup {100}] :
        \A c \in choices : (f[c] = 100) <=> (c = value)}

\* process.extractOne: a choice with the best score (the order of the rows
\* decides between equal scores); NoValue when there is no choice
Picks(choices, score) ==
    IF choices = {} THEN {NoValue}
    ELSE {c \in choices : \A d \in choices : score[c] >= score[d]}

\* [ok, exc, value, sent, call]: the value returned or the exception raised,
\* the statements that reached the engine, and the call as it went
FuzzyCall(column, raw_value, threshold, choices, score, best) ==
    [column |-> column, raw_value |-> raw_value, threshold |-> threshold,
     choices |-> choices, best |-> best,
     score |-> IF best \in choices THEN score[best] ELSE 0]

FuzzyReturned(value, sent, call) ==
    [ok |-> TRUE, exc |-> "", value |-> value, sent |-> sent, call |-> call]

FuzzyRaised(exc, sent, call) ==
    [ok |-> FALSE, exc |-> exc, value |-> NoValue, sent |-> sent, call |-> call]

\* if score >= threshold
ScoreMeets(score, threshold) == score >= threshold

\* the part after rows = run_select(sql_distinct) or []
FuzzyMatch(raw_value, threshold, fetched, best, call) ==
    IF ~fetched.ok THEN FuzzyRaised(fetched.exc, fetched.sent, call)
    ELSE IF fetched.rows = {} THEN FuzzyReturned(raw_value, fetched.sent, call)
    ELSE IF ScoreMeets(call.score, threshold)
    THEN FuzzyReturned(best, fetched.sent, call)
    ELSE FuzzyReturned(raw_value, fetched.sent, call)

_fuzzy_match_column(column, raw_value, threshold, fetched, score, best) ==
    IF raw_value = <<>>
    THEN FuzzyReturned(raw_value, <<>>, FuzzyCall(column, raw_value, threshold, {}, score, best))
    ELSE IF column \notin {"plot_no", "road_no"}
    THEN FuzzyReturned(raw_value, <<>>, FuzzyCall(column, raw_value, threshold, {}, score, best))
    ELSE FuzzyMatch(raw_value, threshold, fetched, best,
                    FuzzyCall(column, raw_value, threshold, fetched.rows, score, best))

_fuzzy_match_person_name(raw_name, threshold, fetched, score, best) ==
    IF raw_name = <<>>
    THEN FuzzyReturned(raw_name, <<>>, FuzzyCall("name", raw_name, threshold, {}, score, best))
    ELSE FuzzyMatch(raw_name, threshold, fetched, best,
                    FuzzyCall("name", raw_name, threshold, fetched.rows, score, best))

\* every way one call of _fuzzy_match_column may go against the registry
ColumnScored(column, raw_value, threshold, registry, engine_ok, score) ==
    {_fuzzy_match_column(column, raw_value, threshold,
                         Answer("fuzzy", DistinctSelected[column],
                                DistinctValues(registry, column), engine_ok),
                         score, best)
        : best \in Picks(DistinctValues(registry, column), score)}

FuzzyColumnOutcomes(column, raw_value, threshold, registry) ==
    UNION {ColumnScored(column, raw_value, threshold, registry, engine_ok, score)
             : engine_ok \in BOOLEAN,
               score \in Scores(raw_value, DistinctValues(registry, column))}

NameScored(raw_name, threshold, engine_ok, score) ==
    {_fuzzy_match_person_name(raw_name, threshold,
                              Answer("fuzzy", NamesSelected,
                                     PersonNames, engine_ok),
                              score, best)
        : best \in Picks(PersonNames, score)}

FuzzyNameOutcomes(raw_name, threshold) ==
    UNION {NameScored(raw_name, threshold, engine_ok, score)
             : engine_ok \in BOOLEAN, score \in Scores(raw_name, PersonNames)}

(***************************************************************************)
(* graph.py : PropertyChatbotGraph.  chat holds self.note_flow, the        *)
(* registry the conversation runs against, and the turn in progress: the   *)
(* message, the node reached and what the turn has done so far.            *)
(***************************************************************************)
NoLookup == [run |-> FALSE, ok |-> FALSE, plot |-> NoValue, road |-> NoValue, rows |-> {}]

\* run(): initial_state for user_query
TurnStart(c, user_query) ==
    [node |-> "load_history", registry |-> c.registry, note_flow |-> c.note_flow,
     user_query |-> user_query, label |-> "", consulted |-> FALSE, to |-> "",
     visited |-> <<>>, sql_log |-> <<>>, fuzzy_log |-> <<>>, lookup |-> NoLookup,
     branch |-> "", listed |-> {}, pdf_calls |-> 0, history_writes |-> 0,
     final_answer |-> "", sql_rows |-> "empty", geometry |-> None, error |-> None,
     ner |-> [plot_no |-> <<>>, person |-> <<>>], raised |-> ""]

ChatIdle(registry) ==
    [TurnStart([registry |-> registry, note_flow |-> NoteFlowOff], <<>>)
        EXCEPT !.node = "idle"]

\* the statements that reached the engine and the fuzzy calls made
Logged(c, sent, calls) == [c EXCEPT !.sql_log = @ \o sent, !.fuzzy_log = @ \o calls]

\* an exception leaves the node n, the graph and run()
Raise(c, n, exc) == [c EXCEPT !.node = "raised", !.raised = exc, !.visited = Append(@, n)]

\* the node n returns the state; the graph goes on to next
Return(c, n, next, branch, final_answer, sql_rows) ==
    [c EXCEPT !.node = next, !.visited = Append(@, n), !.branch = branch,
              !.final_answer = final_answer, !.sql_rows = sql_rows]

ChatStep(c) ==
    /\ chat' = c
    /\ UNCHANGED <<guard, rs_call, engine_log, loop, pc, state, repairs, memory,
                 standalone, turns,
                   collection>>

run ==
    /\ chat.node \in {"idle", "END", "raised"}
    /\ \E user_query \in Messages : ChatStep(TurnStart(chat, user_query))

load_history ==
    /\ chat.node = "load_history"
    /\ ChatStep([chat EXCEPT !.node = "classify", !.visited = Append(@, "load_history")])

AfterClassify(c, cls) ==
    IF ~cls.ok THEN [Raise(c, "classify", "LLMError") EXCEPT !.consulted = TRUE]
    ELSE [c EXCEPT !.node = "route", !.visited = Append(@, "classify"),
                   !.label = cls.label, !.consulted = cls.consulted]

classify_query ==
    /\ chat.node = "classify"
    /\ \E reply \in LabelReplies :
          ChatStep(AfterClassify(chat, classify_property_query(chat.user_query, reply)))

\* _build_graph: the node behind each edge of the conditional routing
NodeOf(to) ==
    CASE to = "small_talk"    -> "handle_small_talk"
      [] to = "irrelevant"    -> "handle_irrelevant"
      [] to = "property_talk" -> "extract_entities"
      [] to = "note_start"    -> "start_note_summary"
      [] to = "note_plot"     -> "collect_plot"
      [] to = "note_road"     -> "collect_road"
      [] to = "note_direct"   -> "note_direct"
      [] to = "map"           -> "map_lookup"

Routed(c, r) == [c EXCEPT !.node = NodeOf(r.to), !.to = r.to, !.note_flow = r.note_flow]

route ==
    /\ chat.node = "route"
    /\ ChatStep(Routed(chat, route_by_classification(chat.user_query, chat.label,
                                                     chat.note_flow)))

handle_small_talk ==
    /\ chat.node = "handle_small_talk"
    /\ \E llm_ok \in BOOLEAN :
          ChatStep(IF llm_ok
                   THEN Return(chat, "handle_small_talk", "END", "", "small talk", "empty")
                   ELSE Raise(chat, "handle_small_talk", "LLMError"))

handle_irrelevant ==
    /\ chat.node = "handle_irrelevant"
    /\ \E llm_ok \in BOOLEAN :
          ChatStep(IF llm_ok
                   THEN Return(chat, "handle_irrelevant", "END", "", "refusal", "empty")
                   ELSE Raise(chat, "handle_irrelevant", "LLMError"))

StartNoteSummary(c, n) ==
    [Return(c, n, "END", "", "Step 1: Please tell me the plot number.", "empty")
        EXCEPT !.note_flow = NoteFlow(TRUE, "plot", NoValue, NoValue)]

start_note_summary ==
    /\ chat.node = "start_note_summary"
    /\ ChatStep(StartNoteSummary(chat, "start_note_summary"))

\* a collect_plot that advances the step without storing the plot
CollectPlot_stepOnly(c, f) ==
    IF ~f.ok THEN Raise(Logged(c, f.sent, <<f>>), "collect_plot", f.exc)
    ELSE [Return(Logged(c, f.sent, <<f>>), "collect_plot", "END", "",
                 "Step 2: Please tell me the road number.", "empty")
             EXCEPT !.note_flow.step = "road"]

\* collect_plot once _fuzzy_match_column has gone as f
CollectPlot(c, f) ==
    IF ~f.ok THEN Raise(Logged(c, f.sent, <<f>>), "collect_plot", f.exc)
    ELSE [Return(Logged(c, f.sent, <<f>>), "collect_plot", "END", "",
                 "Step 2: Please tell me the road number.", "empty")
             EXCEPT !.note_flow.plot = f.value, !.note_flow.step = "road"]

collect_plot ==
    /\ chat.node = "collect_plot"
    /\ \E f \in FuzzyColumnOutcomes("plot_no", chat.user_query, 80, chat.registry) :
          ChatStep(CollectPlot(chat, f))

\* the lookup as it went
Looked(c, plot, road, looked) ==
    [c EXCEPT !.lookup = [run |-> TRUE, ok |-> looked.ok, plot |-> plot, road |-> road,
                          rows |-> looked.rows],
              !.sql_log = @ \o looked.sent]

\* the one row of a one-row result
TheRow(rows) == CHOOSE row \in rows : TRUE

\* [row.get("pra") for row in pra_rows if row.get("pra")]
ListedPras(rows) == {RowGet(row, "pra") : row \in rows} \ {""}

\* generate_property_note_pdf is called: it runs its own statements, and
\* returns or raises
NoteGenerated(c, n, doc_ok) ==
    IF doc_ok
    THEN Return([c EXCEPT !.pdf_calls = @ + 1, !.sql_log = Append(@, "note")],
                n, "END", "proceed", "note summary saved;", "rows")
    ELSE Raise([c EXCEPT !.pdf_calls = @ + 1, !.sql_log = Append(@, "note"),
                         !.branch = "proceed"],
               n, "RuntimeError")

\* a collect_road that leaves the wizard as it is when nothing is found
CollectRoadBranches_noReset(c, looked, doc_ok) ==
    IF ~looked.ok THEN Raise(c, "collect_road", looked.exc)
    ELSE IF looked.rows = {}
    THEN Return(c, "collect_road", "END", "not_found", "couldn't find any property", "empty")
    ELSE IF Cardinality(looked.rows) > 1
    THEN [Return(c, "collect_road", "END", "disambiguation", "multiple properties", "rows")
             EXCEPT !.listed = ListedPras(looked.rows), !.note_flow = NoteFlowOff]
    ELSE IF RowGet(TheRow(looked.rows), "pra") = ""
    THEN [Return(c, "collect_road", "END", "no_identifier", "no PRA stored", "rows")
             EXCEPT !.note_flow = NoteFlowOff]
    ELSE [NoteGenerated(c, "collect_road", doc_ok)
             EXCEPT !.note_flow = IF doc_ok THEN NoteFlowOff ELSE @]

\* collect_road from pra_rows = run_select(sql_pra_lookup) on
CollectRoadBranches(c, looked, doc_ok) ==
    IF ~looked.ok THEN Raise(c, "collect_road", looked.exc)
    ELSE IF looked.rows = {}
    THEN [Return(c, "collect_road", "END", "not_found", "couldn't find any property", "empty")
             EXCEPT !.note_flow = NoteFlowOff]
    ELSE IF Cardinality(looked.rows) > 1
    THEN [Return(c, "collect_road", "END", "disambiguation", "multiple properties", "rows")
             EXCEPT !.listed = ListedPras(looked.rows), !.note_flow = NoteFlowOff]
    ELSE IF RowGet(TheRow(looked.rows), "pra") = ""
    THEN [Return(c, "collect_road", "END", "no_identifier", "no PRA stored", "rows")
             EXCEPT !.note_flow = NoteFlowOff]
    ELSE [NoteGenerated(c, "collect_road", doc_ok)
             EXCEPT !.note_flow = IF doc_ok THEN NoteFlowOff ELSE @]

\* (self.note_flow.get("plot") or "").strip()
PlotOf(note_flow) == IF note_flow.plot = NoValue THEN <<>> ELSE note_flow.plot

\* collect_road once _fuzzy_match_column has returned f
CollectRoad(c, f, engine_ok, doc_ok) ==
    CollectRoadBranches(
        Looked([c EXCEPT !.note_flow.road = f.value], PlotOf(c.note_flow), f.value,
               Answer("lookup",
                      PraLookupSelected[PlotOf(c.note_flow), f.value],
                      LookupRows(c.registry, PlotOf(c.note_flow), f.value), engine_ok)),
        Answer("lookup",
               PraLookupSelected[PlotOf(c.note_flow), f.value],
               LookupRows(c.registry, PlotOf(c.note_flow), f.value), engine_ok),
        doc_ok)

collect_road ==
    /\ chat.node = "collect_road"
    /\ \E f \in FuzzyColumnOutcomes("road_no", chat.user_query, 65, chat.registry) :
          IF ~f.ok
          THEN ChatStep(Raise(Logged(chat, f.sent, <<f>>), "collect_road", f.exc))
          ELSE \E engine_ok \in BOOLEAN, doc_ok \in BOOLEAN :
                  ChatStep(CollectRoad(Logged(chat, f.sent, <<f>>), f, engine_ok, doc_ok))

\* a note_summary_direct that generates the note for the first of several rows
NoteDirectBranches_anyRow(c, looked, doc_ok) ==
    IF ~looked.ok THEN Raise(c, "note_direct", looked.exc)
    ELSE IF looked.rows = {}
    THEN Return(c, "note_direct", "END", "not_found", "couldn't find any property", "empty")
    ELSE NoteGenerated(c, "note_direct", doc_ok)

\* note_summary_direct from pra_rows = run_select(sql_pra_lookup) on
NoteDirectBranches(c, looked, doc_ok) ==
    IF ~looked.ok THEN Raise(c, "note_direct", looked.exc)
    ELSE IF looked.rows = {}
    THEN Return(c, "note_direct", "END", "not_found", "couldn't find any property", "empty")
    ELSE IF Cardinality(looked.rows) > 1
    THEN [Return(c, "note_direct", "END", "disambiguation", "multiple properties", "rows")
             EXCEPT !.listed = ListedPras(looked.rows)]
    ELSE IF RowGet(TheRow(looked.rows), "pra") = ""
    THEN Return(c, "note_direct", "END", "no_identifier", "no PRA stored", "rows")
    ELSE NoteGenerated(c, "note_direct", doc_ok)

\* note_summary_direct once both values have been matched
NoteDirect(c, plot, road, looked, doc_ok) ==
    NoteDirectBranches(Looked(c, plot, road, looked), looked, doc_ok)

note_direct ==
    /\ chat.node = "note_direct"
    /\ IF parse_plot_road_from_text(chat.user_query).plot = <<>>
          \/ parse_plot_road_from_text(chat.user_query).road = <<>>
       THEN ChatStep(StartNoteSummary(chat, "note_direct"))
       ELSE \E p \in FuzzyColumnOutcomes("plot_no",
                        parse_plot_road_from_text(chat.user_query).plot, 80, chat.registry) :
              IF ~p.ok
              THEN ChatStep(Raise(Logged(chat, p.sent, <<p>>), "note_direct", p.exc))
              ELSE \E r \in FuzzyColumnOutcomes("road_no",
                               parse_plot_road_from_text(chat.user_query).road, 65,
                               chat.registry) :
                     IF ~r.ok
                     THEN ChatStep(Raise(Logged(chat, p.sent \o r.sent, <<p, r>>),
                                         "note_direct", r.exc))
                     ELSE \E engine_ok \in BOOLEAN, doc_ok \in BOOLEAN :
                            ChatStep(NoteDirect(
                                Logged(chat, p.sent \o r.sent, <<p, r>>),
                                p.value, r.value,
                                Answer("lookup",
                                       PraLookupSelected[p.value, r.value],
                                       LookupRows(chat.registry, p.value, r.value),
                                       engine_ok),
                                doc_ok))

\* fetch_map_for_pra(pra) and what map_lookup makes of the rows
MapFetched(c, fetched) ==
    IF ~fetched.ok
    THEN Raise([Logged(c, fetched.sent, <<>>) EXCEPT !.branch = "proceed"],
               "map_lookup", fetched.exc)
    ELSE IF fetched.rows = {}
    THEN Return(Logged(c, fetched.sent, <<>>), "map_lookup", "save_history", "no_geometry",
                "no map geometry stored", "empty")
    ELSE [Return(Logged(c, fetched.sent, <<>>), "map_lookup", "save_history", "proceed",
                 "Map geometry is available", "rows")
             EXCEPT !.geometry = "geometry"]

\* map_lookup from pra_sql, pra_rows = lookup_pra_for_plot_road(plot, road) on
MapBranches(c, looked, engine_ok) ==
    IF ~looked.ok THEN Raise(c, "map_lookup", looked.exc)
    ELSE IF looked.rows = {}
    THEN Return(c, "map_lookup", "save_history", "not_found",
                "couldn't find any property", "empty")
    ELSE IF Cardinality(looked.rows) > 1
    THEN [Return(c, "map_lookup", "save_history", "disambiguation",
                 "multiple properties", "rows")
             EXCEPT !.listed = ListedPras(looked.rows)]
    ELSE IF RowGet(TheRow(looked.rows), "pra") = ""
    THEN Return(c, "map_lookup", "save_history", "no_identifier", "no PRA stored", "rows")
    ELSE MapFetched(c, Answer("map_fetch",
                              MapFetchSelected[RowGet(TheRow(looked.rows), "pra")],
                              MapRows(RowGet(TheRow(looked.rows), "pra")), engine_ok))

\* lookup_pra_for_plot_road(plot, road)
lookup_pra_for_plot_road(registry, plot, road, engine_ok) ==
    Answer("map_lookup", MapPraLookupSelected[plot, road],
           MapLookupRows(registry, plot, road), engine_ok)

\* map_lookup once both values have been matched
MapLookup(c, plot, road, looked, engine_ok) ==
    MapBranches(Looked(c, plot, road, looked), looked, engine_ok)

map_lookup ==
    /\ chat.node = "map_lookup"
    /\ IF parse_plot_road_from_text(chat.user_query).plot = <<>>
          \/ parse_plot_road_from_text(chat.user_query).road = <<>>
       THEN ChatStep(Return(chat, "map_lookup", "save_history", "cannot_parse",
                            "please tell me both the plot and road number", "empty"))
       ELSE \E p \in FuzzyColumnOutcomes("plot_no",
                        parse_plot_road_from_text(chat.user_query).plot, 80, chat.registry) :
              IF ~p.ok
              THEN ChatStep(Raise(Logged(chat, p.sent, <<p>>), "map_lookup", p.exc))
              ELSE \E r \in FuzzyColumnOutcomes("road_no",
                               parse_plot_road_from_text(chat.user_query).road, 65,
                               chat.registry) :
                     IF ~r.ok
                     THEN ChatStep(Raise(Logged(chat, p.sent \o r.sent, <<p, r>>),
                                         "map_lookup", r.exc))
                     ELSE \E engine_ok \in BOOLEAN, fetch_ok \in BOOLEAN :
                            ChatStep(MapLookup(
                                Logged(chat, p.sent \o r.sent, <<p, r>>),
                                p.value, r.value,
                                lookup_pra_for_plot_road(chat.registry, p.value, r.value,
                                                         engine_ok),
                                fetch_ok))

(***************************************************************************)
(* memory.py : ConversationMemory                                          *)
(* A dict is a function from its keys; focus_property = None is the record *)
(* NoFocus, told apart from {"pra": None, "file_name": None} by its none   *)
(* field.  last_call records the call that gave the state and the focus it *)
(* found.                                                                  *)
(***************************************************************************)
\* d.get(k)
Get(d, k) == IF k \in DOMAIN d THEN d[k] ELSE None

\* s.strip() of the names of the model
Strip(v) ==
    CASE v = " neelam " -> "neelam"
      [] v = "  "       -> ""
      [] OTHER          -> v

\* the "person" value of the NER reply is a list of strings
PersonLists == {"['neelam']", "['neelam', 'kohl']"}

\* isinstance(v, str)
IsStr(v) == v # None /\ v \notin PersonLists

PraValues      == {None, "", "PRA1", "PRA2"}
FileNameValues == {None, "F1"}
NameValues     == {None, "  ", " neelam "}

\* the dicts over some of keys whose values the sets of vals allow
Dicts(keys, vals) ==
    UNION {[ks -> UNION {vals[k] : k \in keys}] : ks \in SUBSET keys}

WellValued(d, vals) == \A k \in DOMAIN d : d[k] \in vals[k]

\* ner_entities as update_from_entities may receive them
EntityValues ==
    [pra |-> PraValues, file_name |-> FileNameValues, plot_no |-> {None, "30"},
     name |-> NameValues, person |-> {None, "['neelam']"}]

EntityBundles ==
    {d \in Dicts({"pra", "file_name", "plot_no", "name", "person"}, EntityValues)
        : WellValued(d, EntityValues)}

\* the first row of a result, with the columns the query selected
RowValues ==
    [pra |-> {None, "PRA1", "PRA2"}, file_name |-> FileNameValues,
     name |-> {None, " neelam "}]

SqlRows ==
    {d \in Dicts({"pra", "file_name", "name"}, RowValues) : WellValued(d, RowValues)}

RowLists == {<<>>} \cup {<<row>> : row \in SqlRows}

NoFocus == [none |-> TRUE, pra |-> None, file_name |-> None]

Focus(pra, file_name) == [none |-> FALSE, pra |-> pra, file_name |-> file_name]

\* x or y
Or(x, y) == IF Truthy(x) THEN x ELSE y

\* __init__ and reset
MemoryInit ==
    [focus_property |-> NoFocus, focus_person |-> None, last_sql_rows |-> <<>>,
     last_call |-> [op |-> "__init__", found |-> NoFocus, person |-> None,
                    given |-> None, ner |-> TRUE]]

\* the keys of the JSON object extract_property_entities asks for and fills
NerKeys ==
    {"pra", "file_name", "file_no", "plot_no", "road_no", "area", "person",
     "year_from", "year_to", "intent"}

NoEntities == [k \in {} |-> None]

\* the call op gave m: found and person are the focus before the call, given
\* is the "person" value of the entities it received and ner tells whether
\* they hold keys of the NER extraction only
Called(m, op, entities) ==
    [m EXCEPT !.last_call = [op |-> op, found |-> memory.focus_property,
                             person |-> memory.focus_person,
                             given |-> Get(entities, "person"),
                             ner |-> DOMAIN entities \subseteq NerKeys]]

PropertyKeys == {"pra", "file_no", "file_name", "plot_no", "road_no", "area"}

PersonKeys == <<"person_name", "owner_name", "name">>

\* the value of the first key of PersonKeys, from k on, that holds a string
\* which is not blank; None when there is none
RECURSIVE FirstPerson(_, _)
FirstPerson(entities, k) ==
    IF k > Len(PersonKeys) THEN None
    ELSE IF IsStr(Get(entities, PersonKeys[k])) /\ Truthy(Strip(Get(entities, PersonKeys[k])))
    THEN Strip(Get(entities, PersonKeys[k]))
    ELSE FirstPerson(entities, k + 1)

UpdateFromEntities(m, entities) ==
    [m EXCEPT
       !.focus_property =
           IF \E k \in PropertyKeys : Truthy(Get(entities, k))
           THEN Focus(Or(Get(entities, "pra"), m.focus_property.pra),
                      Or(Get(entities, "file_name"), m.focus_property.file_name))
           ELSE @,
       !.focus_person =
           IF FirstPerson(entities, 1) # None THEN FirstPerson(entities, 1) ELSE @]

UpdateFromSqlRows(m, rows) ==
    IF rows = <<>> THEN [m EXCEPT !.last_sql_rows = rows]
    ELSE [m EXCEPT
            !.last_sql_rows = rows,
            !.focus_property =
                IF "pra" \in DOMAIN rows[1] \/ "file_name" \in DOMAIN rows[1]
                THEN Focus(Get(rows[1], "pra"), Get(rows[1], "file_name"))
                ELSE @,
            !.focus_person =
                IF "name" \in DOMAIN rows[1] /\ IsStr(rows[1]["name"])
                THEN Strip(rows[1]["name"])
                ELSE @]

(***************************************************************************)
(* The property_talk flow.  The statement generate_sql_node produces and   *)
(* its repair are the subject of SpecTurn; here the node leaves a          *)
(* validated statement or an error, and execute_sql rows, no rows or an    *)
(* error.                                                                  *)
(***************************************************************************)
\* what extract_property_entities may find in the message
NerReplies ==
    {[plot_no |-> <<>>, person |-> <<>>],
     [plot_no |-> <<"30">>, person |-> <<>>],
     [plot_no |-> <<>>, person |-> <<"neelam", "kohl">>]}

\* the dict extract_property_entities returns for a reply: the person is a
\* list, the keys the reply omits are set to None
NerEntities(ner) ==
    [pra |-> None, file_name |-> None,
     plot_no |-> IF ner.plot_no = <<>> THEN None ELSE ner.plot_no[1],
     person |-> IF ner.person = <<>> THEN None ELSE "['neelam', 'kohl']"]

\* extract_entities: self.memory.update_from_entities(ner) before the state
\* takes the entities
extract_entities ==
    /\ chat.node = "extract_entities"
    /\ \/ \E ner \in NerReplies :
             /\ chat' = [chat EXCEPT !.node = "build_standalone", !.ner = ner,
                                     !.visited = Append(@, "extract_entities")]
             /\ memory' = UpdateFromEntities(memory, NerEntities(ner))
       \/ /\ chat' = Raise(chat, "extract_entities", "LLMError")
          /\ UNCHANGED memory
    /\ UNCHANGED <<guard, rs_call, engine_log, loop, pc, state, repairs, standalone,
                   turns,
                   collection>>

\* _apply_fuzzy_plot_road: the plot value is matched when the entities hold one
StandalonePlot(c) ==
    IF c.ner.plot_no = <<>>
    THEN {FuzzyReturned(<<>>, <<>>, FuzzyCall("plot_no", <<>>, 65, {}, <<>>, NoValue))}
    ELSE FuzzyColumnOutcomes("plot_no", c.ner.plot_no, 65, c.registry)

\* _apply_fuzzy_person_names: the name is matched when the entities hold one
StandalonePerson(c) ==
    IF c.ner.person = <<>>
    THEN {FuzzyReturned(<<>>, <<>>, FuzzyCall("name", <<>>, 85, {}, <<>>, NoValue))}
    ELSE FuzzyNameOutcomes(c.ner.person, 85)

\* the calls _postprocess_standalone_question made
CallsOf(c, p, n) ==
    (IF c.ner.plot_no = <<>> THEN <<>> ELSE <<p>>)
    \o (IF c.ner.person = <<>> THEN <<>> ELSE <<n>>)

\* _postprocess_standalone_question with the plot matched as p and the name as n
Postprocessed(c, p, n) ==
    IF ~p.ok THEN Raise(Logged(c, p.sent, <<p>>), "build_standalone", p.exc)
    ELSE IF ~n.ok
    THEN Raise(Logged(c, p.sent \o n.sent, CallsOf(c, p, n)), "build_standalone", n.exc)
    ELSE [Logged(c, p.sent \o n.sent, CallsOf(c, p, n))
             EXCEPT !.node = "retrieve_context",
                    !.visited = Append(@, "build_standalone"),
                    !.ner = [plot_no |-> p.value, person |-> n.value]]

build_standalone ==
    /\ chat.node = "build_standalone"
    /\ \/ ChatStep(Raise(chat, "build_standalone", "LLMError"))
       \/ \E p \in StandalonePlot(chat) :
             IF ~p.ok THEN ChatStep(Postprocessed(chat, p, p))
             ELSE \E n \in StandalonePerson(chat) : ChatStep(Postprocessed(chat, p, n))

retrieve_context ==
    /\ chat.node = "retrieve_context"
    /\ ChatStep([chat EXCEPT !.node = "generate_sql",
                             !.visited = Append(@, "retrieve_context")])

\* generate_sql_node: the first draft raises outside the try, or the node
\* leaves a validated statement, or an error after the second validation
generate_sql_node ==
    /\ chat.node = "generate_sql"
    /\ \/ ChatStep(Raise(chat, "generate_sql", "LLMError"))
       \/ \E error \in {None, "unsafe SQL blocked"} :
             ChatStep([chat EXCEPT !.node = "execute_sql", !.error = error,
                                   !.visited = Append(@, "generate_sql")])

\* execute_sql: nothing runs when the state holds an error; every exception
\* of run_select is caught
execute_sql ==
    /\ chat.node = "execute_sql"
    /\ IF chat.error # None
       THEN ChatStep([chat EXCEPT !.node = "build_answer", !.sql_rows = "empty",
                                  !.visited = Append(@, "execute_sql")])
       ELSE \E answer \in EngineOutcomes :
               ChatStep([chat EXCEPT
                           !.node = "build_answer",
                           !.visited = Append(@, "execute_sql"),
                           !.sql_log = Append(@, "generated"),
                           !.sql_rows = IF answer = "rows" THEN "rows" ELSE "empty",
                           !.error = IF answer \in {"rows", "no_rows"} THEN None
                                     ELSE answer])

build_answer ==
    /\ chat.node = "build_answer"
    /\ \E llm_ok \in BOOLEAN :
          ChatStep(IF llm_ok
                   THEN [chat EXCEPT !.node = "save_history", !.final_answer = "answer",
                                     !.geometry = None,
                                     !.visited = Append(@, "build_answer")]
                   ELSE Raise(chat, "build_answer", "LLMError"))

\* a save_history that stores every exchange twice
SaveHistory_twice(c) ==
    [c EXCEPT !.node = "END", !.visited = Append(@, "save_history"),
              !.history_writes = @ + 2]

\* a save_history that persists every exchange
SaveHistory_always(c) ==
    [c EXCEPT !.node = "END", !.visited = Append(@, "save_history"),
              !.history_writes = @ + 1]

\* save_history: if state.get("sql_rows") or label != "property_talk"
SaveHistory(c) ==
    [c EXCEPT !.node = "END", !.visited = Append(@, "save_history"),
              !.history_writes = IF c.sql_rows = "rows" \/ c.label # "property_talk"
                                 THEN @ + 1 ELSE @]

save_history ==
    /\ chat.node = "save_history"
    /\ ChatStep(SaveHistory(chat))

InitChat ==
    /\ guard = GuardIdle
    /\ rs_call = NoCall
    /\ engine_log = <<>>
    /\ loop = LoopIdle
    /\ pc = "idle"
    /\ state = State0
    /\ \E registry \in Registries : chat = ChatIdle(registry)
    /\ repairs = NoRepairs
    /\ memory = MemoryInit
    /\ standalone = Off
    /\ turns = Off
    /\ collection = Off

NextChat ==
    \/ run
    \/ load_history
    \/ classify_query
    \/ route
    \/ handle_small_talk
    \/ handle_irrelevant
    \/ start_note_summary
    \/ collect_plot
    \/ collect_road
    \/ note_direct
    \/ map_lookup
    \/ extract_entities
    \/ build_standalone
    \/ retrieve_context
    \/ generate_sql_node
    \/ execute_sql
    \/ build_answer
    \/ save_history

SpecChat == InitChat /\ [][NextChat]_vars

(***************************************************************************)
(* Properties of the guardrail and of run_select (SpecGuard)               *)
(***************************************************************************)
Validated == guard.pc \in {"validated", "revalidated", "executed"}

Accepts(text) == clean_and_validate_sql(text).ok

\* the first word of a raw text, code-fence markers and whitespace skipped
FirstWord(text) ==
    LET w == SelectSeq(text, LAMBDA t : t \notin Fences \cup {" "}) IN
    IF w = <<>> THEN EOF ELSE Head(w)

ContainsDangerousKeyword(text) == \E i \in DOMAIN text : KeywordsIn(text[i]) # {}

\* the text names, after FROM or JOIN, a table outside the whitelist
ReferencesForeignTable(text) ==
    \E i \in DOMAIN text :
        /\ Upper(text[i]) \in {"FROM", "JOIN"}
        /\ IsIdent(Tok(text, i + 1))
        /\ Tok(text, i + 1) \notin ALLOWED_TABLES

\* number of LIMIT clauses (the keyword, not the word inside a literal)
LimitClauses(text) == Cardinality({i \in DOMAIN text : Upper(text[i]) = "LIMIT"})

HasAggregate(text) == \E i \in DOMAIN text : text[i] \in AggNames

\* C1: every text in the engine log was sent by a run_select call whose
\* argument the guardrail accepts, and is the guardrail's output for it (with
\* or without its trailing LIMIT); a call whose argument the guardrail
\* rejects raised and sent nothing.
SentByGuardrail(sql, v) == v.ok /\ sql \in {v.sql, _remove_limit_clause(v.sql)}

C1_ExecutedOnlyWhenAccepted ==
    /\ \A i \in DOMAIN engine_log :
          SentByGuardrail(engine_log[i].sql, clean_and_validate_sql(engine_log[i].query))
    /\ rs_call.n > 0 =>
          IF Accepts(rs_call.query)
          THEN /\ rs_call.sent # NoText
               /\ engine_log # <<>>
               /\ Last(engine_log).call = rs_call.n
               /\ Last(engine_log).sql = rs_call.sent
          ELSE /\ rs_call.raised \in {"ValueError", "ParseError"}
               /\ rs_call.sent = NoText
               /\ \A i \in DOMAIN engine_log : engine_log[i].call # rs_call.n

C1_Witness ==
    /\ rs_call.n > 0
    /\ ~Accepts(rs_call.query)
    /\ ReferencesForeignTable(rs_call.query)
    /\ rs_call.raised = "ValueError"
    /\ engine_log = <<>>

\* C2 as stated: a text whose first word is not SELECT, or which contains a
\* dangerous keyword, is rejected.
C2_FirstWordOrKeywordRejected ==
    Validated =>
        ((Upper(FirstWord(guard.sql)) # "SELECT" \/ ContainsDangerousKeyword(guard.sql))
            => ~guard.first.ok)

\* C2 amended: a text that, once the code-fence markers are removed and the
\* text is trimmed, does not begin with SELECT, or which contains a dangerous
\* keyword anywhere, is rejected.
C2_CleanedStartOrKeywordRejected ==
    Validated =>
        ((~StartsWithSelectTest(strip(re_sub_fences(guard.sql)))
          \/ ContainsDangerousKeyword(guard.sql))
            => ~guard.first.ok)

C2_Witness ==
    /\ Validated
    /\ Upper(FirstWord(guard.sql)) = "SELECT"
    /\ ContainsDangerousKeyword(guard.sql)
    /\ ~guard.first.ok
    /\ guard.first.reason = "Disallowed keyword found in SQL."

\* C3 as stated: a text that references a table outside the whitelist is
\* rejected.
C3_ForeignTableRejected ==
    Validated => (ReferencesForeignTable(guard.sql) => ~guard.first.ok)

\* Reference resolution as SQL defines it, for the statement of C4: a table
\* alias is visible in the query that declares it and in the queries nested
\* in it, and an inner declaration hides an outer one of the same name.
RECURSIVE LocalScope(_, _)
LocalScope(tables, scope) ==
    IF tables = <<>> THEN scope
    ELSE LET t == Head(tables)
             k == IF t.alias = "" THEN t.name ELSE t.alias
         IN  LocalScope(Tail(tables),
                        [x \in DOMAIN scope \cup {k} |-> IF x = k THEN t.name ELSE scope[x]])

ColumnResolves(col, scope, derived) ==
    LET whitelisted == \E t \in ALLOWED_TABLES : col.name \in ALLOWED_COLUMNS[t] IN
    IF col.table = ""
    THEN \/ derived # {} /\ whitelisted
         \/ \E q \in DOMAIN scope :
                scope[q] \in ALLOWED_TABLES /\ col.name \in ALLOWED_COLUMNS[scope[q]]
    ELSE \/ col.table \in derived /\ whitelisted
         \/ /\ col.table \in DOMAIN scope
            /\ scope[col.table] \in ALLOWED_TABLES
            /\ col.name \in ALLOWED_COLUMNS[scope[col.table]]

RECURSIVE WellScoped(_, _)
RECURSIVE WellScopedIn(_, _, _, _, _)
WellScopedIn(tabs, cols, kids, scope, derived) ==
    /\ \A i \in DOMAIN tabs : tabs[i].name \in ALLOWED_TABLES
    /\ \A i \in DOMAIN cols : ColumnResolves(cols[i], scope, derived)
    /\ \A i \in DOMAIN kids : WellScoped(kids[i], scope)

WellScoped(sel, outer) ==
    WellScopedIn(OwnTables(sel.from), OwnColumns(sel), Children(sel),
                 LocalScope(OwnTables(sel.from), outer), OwnDerivedAliases(sel.from))

\* a single SELECT statement that references only whitelisted tables and
\* columns and holds no dangerous keyword (which C2 requires to be rejected)
WhitelistedSelect(p) == p.ok /\ p.node.kind = "Select" /\ WellScoped(p.node, EmptyMap)

SingleWhitelistedSelect(text) ==
    /\ \A i \in DOMAIN text : text[i] \notin Fences
    /\ ~ContainsDangerousKeyword(text)
    /\ WhitelistedSelect(ParseStatement(WithoutTerminator(Tokenize(text))))

\* C4 as stated: a single SELECT statement referencing only whitelisted
\* tables and columns, through aliases and self-joins included, is accepted.
C4_WhitelistedSelectAccepted ==
    Validated => (SingleWhitelistedSelect(guard.sql) => guard.first.ok)

\* C5: a text with more than one ';' is rejected with the multiple-statement
\* error, and an accepted text comes back as one statement that ends in
\* exactly one ';'.
OneStatementOneTerminator(text) ==
    /\ endswith_semi(text)
    /\ Len(text) >= 2
    /\ text[Len(text) - 1] # ";"
    /\ Len(Chunks(Tokenize(text))) = 1

C5_SingleStatement ==
    Validated =>
        /\ count_semi(guard.sql) > 1 =>
              /\ ~guard.first.ok
              /\ guard.first.exc = "SQLValidationError"
              /\ guard.first.reason = "LLM produced multiple SQL statements; blocking."
        /\ guard.first.ok => OneStatementOneTerminator(guard.first.sql)

C5_Witness ==
    /\ Validated
    /\ count_semi(guard.sql) > 1
    /\ Upper(FirstWord(guard.sql)) = "SELECT"
    /\ guard.first.reason = "LLM produced multiple SQL statements; blocking."

\* C6 as stated: the guardrail accepts its own output and returns it unchanged.
C6_Idempotent ==
    (guard.pc = "revalidated" /\ guard.first.ok) =>
        (guard.second.ok /\ guard.second.sql = guard.first.sql)

\* C7 as stated: an accepted statement with no LIMIT clause and no aggregate
\* comes back with exactly one LIMIT clause, LIMIT 100; one with an aggregate
\* and no LIMIT clause comes back without one.
EndsWithDefaultLimit(text) ==
    /\ Len(text) >= 3
    /\ SubSeq(text, Len(text) - 2, Len(text)) = <<"LIMIT", "100", ";">>

C7_DefaultLimit ==
    (Validated /\ guard.first.ok /\ LimitClauses(guard.sql) = 0) =>
        IF HasAggregate(guard.sql)
        THEN LimitClauses(guard.first.sql) = 0
        ELSE LimitClauses(guard.first.sql) = 1 /\ EndsWithDefaultLimit(guard.first.sql)

\* C8: with preserve_limit the text sent to the engine is the guardrail's
\* output; without it, it is that output less its trailing LIMIT n, ending in
\* one ';' - so a trailing LIMIT 1 survives only with preserve_limit.
EndsWithLimit(text) ==
    LET b == IF endswith_semi(text) THEN Front(text) ELSE text IN
    Len(b) >= 2 /\ Upper(b[Len(b) - 1]) = "LIMIT" /\ b[Len(b)] \in Numbers

\* sent is the guardrail's output safe_sql, kept or less its trailing LIMIT n
SentAsAsked(sent, safe_sql, preserve_limit) ==
    IF preserve_limit
    THEN sent = safe_sql
    ELSE /\ endswith_semi(sent)
         /\ count_semi(Front(sent)) = count_semi(Front(safe_sql))
         /\ ~EndsWithLimit(sent)
         /\ IF EndsWithLimit(safe_sql)
            THEN sent = SubSeq(safe_sql, 1, Len(safe_sql) - 3) \o <<";">>
            ELSE sent = safe_sql

C8_PreserveLimit ==
    (rs_call.n > 0 /\ rs_call.sent # NoText) =>
        SentAsAsked(rs_call.sent, clean_and_validate_sql(rs_call.query).sql,
                    rs_call.preserve_limit)

C8_Witness ==
    /\ rs_call.n > 0
    /\ ~rs_call.preserve_limit
    /\ rs_call.sent # NoText
    /\ LimitClauses(rs_call.query) = 1
    /\ SubSeq(rs_call.query, Len(rs_call.query) - 1, Len(rs_call.query)) = <<"limit", "1">>
    /\ LimitClauses(rs_call.sent) = 0

\* C9: the repair loop with retry budget n makes at most n+1 guardrail calls
\* and at most n service calls (so it ends after at most 2n+1 steps); the
\* candidate validated at each iteration after the first is the text the
\* service returned just before; and when the n+1 candidates are all rejected
\* the loop raises the rejection of the last one.
RaisesRejectionOf(result, last_error, v) ==
    /\ ~v.ok
    /\ result.exc = v.exc
    /\ result.reason = v.reason
    /\ v.exc = "SQLValidationError" => last_error = v.reason

C9_RepairLoopBounded ==
    /\ loop.validations <= loop.max_retries + 1
    /\ loop.llm_calls <= loop.max_retries
    /\ \A k \in 2..Len(loop.attempts_info) :
          loop.attempts_info[k].original_sql = loop.generated[k - 1]
    /\ (loop.pc = "validate" /\ loop.generated # <<>>) =>
          loop.sql_query = Last(loop.generated)
    /\ (loop.pc = "raised" /\ loop.validations = loop.max_retries + 1) =>
          RaisesRejectionOf(loop.result, loop.last_error,
                            clean_and_validate_sql(loop.sql_query))

C9_Witness ==
    /\ loop.pc = "raised"
    /\ loop.max_retries = 2
    /\ loop.validations = 3
    /\ loop.llm_calls = 2
    /\ Len(loop.attempts_info) = 3
    /\ loop.attempts_info[1].error # loop.last_error
    /\ loop.result.exc = "SQLValidationError"

\* C10 as stated: when repair fails in generate_sql_node or in execute_sql the
\* turn ends with sql_query beginning with '-- ERROR' and error set (and, for
\* execute_sql, no rows); no turn ends with error set and an executable
\* sql_query.
BeginsWithError(text) ==
    text # <<>> /\ Head(text) \in {ERROR_UNSAFE, ERROR_AFTER_REPAIR, ERROR_GENERIC}

\* the turn has ended in the repair request of a node: the request raised
RepairRequestRaised == pc \in {"raised:direct_repair", "raised:execution_repair"}

C10_FailedRepairLeavesPlaceholder ==
    /\ state.failed = "generate_sql_node" =>
          BeginsWithError(state.sql_query) /\ state.error # None
    /\ state.failed = "execute_sql" =>
          /\ BeginsWithError(state.sql_query)
          /\ state.sql_rows = "empty"
          /\ state.error # None
    /\ pc = "done" => ~(state.error # None /\ Accepts(state.sql_query))
    /\ RepairRequestRaised => BeginsWithError(state.sql_query) /\ state.error # None

(***************************************************************************)
(* Properties of the conversation graph (SpecChat)                         *)
(***************************************************************************)
\* the rules of the routing in their order, written out for a message q, a
\* label and a wizard
FirstApplicableRule(q, label, wizard) ==
    IF wizard.active
    THEN IF wizard.step = "plot" THEN "note_plot" ELSE "note_road"
    ELSE IF _is_map_trigger(q) THEN "map"
    ELSE IF _is_note_summary_trigger(q)
    THEN IF parse_plot_road_from_text(q).plot # <<>> /\ parse_plot_road_from_text(q).road # <<>>
         THEN "note_direct" ELSE "note_start"
    ELSE IF label = "small_talk" THEN "small_talk"
    ELSE IF label = "irrelevant_question" THEN "irrelevant"
    ELSE "property_talk"

ReturnedFrom(n) == chat.node = "END" /\ chat.visited # <<>> /\ Last(chat.visited) = n

\* C12: after collect_road returns, the wizard is inactive (active false,
\* step, plot and road null) in each of the four branches of the lookup.
C12_WizardInactiveAfterCollectRoad ==
    ReturnedFrom("collect_road") =>
        /\ chat.branch \in {"not_found", "disambiguation", "no_identifier", "proceed"}
        /\ ~chat.note_flow.active
        /\ chat.note_flow.step = None
        /\ chat.note_flow.plot = NoValue
        /\ chat.note_flow.road = NoValue

C12_Witness ==
    /\ ReturnedFrom("collect_road")
    /\ chat.branch = "disambiguation"
    /\ Cardinality(chat.lookup.rows) > 1
    /\ ~chat.note_flow.active

\* the lookup returned exactly one row and its identifier is populated
UsableRow(l) ==
    /\ l.run
    /\ l.ok
    /\ Cardinality(l.rows) = 1
    /\ \A row \in l.rows : RowGet(row, "pra") # ""

Count(log, kind) == Cardinality({i \in DOMAIN log : log[i] = kind})

\* the turn is in, or has left, one of the two note nodes that look up
InNoteLookup == chat.visited # <<>> /\ Last(chat.visited) \in {"collect_road", "note_direct"}

\* C13: in collect_road and note_direct, generate_property_note_pdf is
\* called exactly once if and only if the lookup returned exactly one row with
\* a populated identifier; otherwise it is not called and only the lookup and
\* the fuzzy candidate fetches reach the registry.
C13_NoteGeneratedOnlyForOneUsableRow ==
    InNoteLookup =>
        /\ chat.pdf_calls = (IF UsableRow(chat.lookup) THEN 1 ELSE 0)
        /\ ~UsableRow(chat.lookup) =>
              /\ \A i \in DOMAIN chat.sql_log : chat.sql_log[i] \in {"fuzzy", "lookup"}
              /\ Count(chat.sql_log, "lookup") <= 1

C13_Witness ==
    /\ ReturnedFrom("note_direct")
    /\ UsableRow(chat.lookup)
    /\ chat.pdf_calls = 1
    /\ chat.final_answer = "note summary saved;"

\* the rows the registry holds for the pair a lookup was made for
HeldFor(l) == {row \in chat.registry : row.plot_no = l.plot /\ row.road_no = l.road}

\* the branch the match policy dictates for the rows held for a pair
PolicyBranch(rows) ==
    IF rows = {} THEN "not_found"
    ELSE IF Cardinality(rows) > 1 THEN "disambiguation"
    ELSE IF \A row \in rows : row.pra = "" THEN "no_identifier"
    ELSE "proceed"

\* the lookup of the turn was made and the engine did not fail on it
LookupAnswered ==
    /\ chat.lookup.run
    /\ chat.raised # "OperationalError"
    /\ PraLookupSelected[chat.lookup.plot, chat.lookup.road].ok

\* the downstream action of the turn: document generation or geometry fetch
DownstreamActed == chat.pdf_calls > 0 \/ Count(chat.sql_log, "map_fetch") > 0

\* C14 as stated: collect_road, note_direct and map_lookup take the same
\* branch for the same registry content of a (plot, road) pair (not found,
\* disambiguation listing every returned identifier, found without
\* identifier, proceed), and the downstream action happens only in the
\* branch of exactly one usable row.
C14_SamePolicyInThreeStates ==
    LookupAnswered =>
        /\ chat.branch \in {PolicyBranch(HeldFor(chat.lookup)), "no_geometry"}
        /\ chat.branch = "no_geometry" => PolicyBranch(HeldFor(chat.lookup)) = "proceed"
        /\ chat.branch = "disambiguation" =>
              chat.listed = {row.pra : row \in HeldFor(chat.lookup)} \ {""}
        /\ DownstreamActed => PolicyBranch(HeldFor(chat.lookup)) = "proceed"

\* C15 as stated: a map_lookup turn with a parseable plot and road, against a
\* registry holding exactly one row with a populated identifier for the
\* pair, resolves the identifier, fetches its geometry and returns the
\* payloads: it ends in no error, not-found or cannot-proceed answer.
C15_MapLookupResolves ==
    (/\ chat.visited # <<>>
     /\ Last(chat.visited) = "map_lookup"
     /\ LookupAnswered
     /\ PolicyBranch(HeldFor(chat.lookup)) = "proceed"
     /\ \A row \in HeldFor(chat.lookup) : row.pra \in MappedPras) =>
        /\ chat.node = "save_history"
        /\ chat.branch = "proceed"
        /\ Count(chat.sql_log, "map_fetch") = 1
        /\ chat.geometry = "geometry"

\* C16 as stated: nothing is fatal.  A guardrail rejection, a registry error
\* or a document-generation failure inside a state does not leave run as an
\* exception, and a turn that ends has a final answer.
C16_NothingIsFatal ==
    /\ chat.node = "raised" => chat.raised \notin {"ValueError", "OperationalError", "RuntimeError"}
    /\ chat.node = "END" => chat.final_answer # ""

\* the node n has been left in this turn
Visited(n) == \E i \in DOMAIN chat.visited : chat.visited[i] = n

\* C17: a message matching the mutation-keyword pattern is classified
\* irrelevant_question whatever the model would answer and whatever property
\* keywords it holds, and the model is not consulted.
C17_MutationAlwaysOutOfScope ==
    (Visited("classify") /\ MatchesMutationPattern(chat.user_query)) =>
        /\ chat.label = "irrelevant_question"
        /\ ~chat.consulted

C17_Witness ==
    /\ chat.node = "route"
    /\ MatchesMutationPattern(chat.user_query)
    /\ MatchesPropertyKeyword(chat.user_query)
    /\ chat.label = "irrelevant_question"
    /\ ~chat.consulted

\* C18 as stated: a turn whose message matches the mutation-keyword pattern
\* ends through the irrelevant state with the refusal; no statement reaches
\* the registry and no wizard, note or map node runs, whatever the message
\* holds besides and whatever the wizard state.
C18_MutationTurnIsRefused ==
    (Visited("classify") /\ MatchesMutationPattern(chat.user_query)) =>
        /\ \A i \in DOMAIN chat.visited :
              chat.visited[i] \in {"load_history", "classify", "handle_irrelevant"}
        /\ chat.to \in {"", "irrelevant"}
        /\ chat.sql_log = <<>>
        /\ chat.node = "END" => chat.final_answer = "refusal"

\* C19: history.add_exchange runs at most once in a turn, and only in a turn
\* of the property_talk flow or of the map_lookup flow.
C19_HistoryWrittenOnceInTwoFlows ==
    /\ chat.history_writes <= 1
    /\ chat.history_writes > 0 =>
          /\ chat.to \in {"property_talk", "map"}
          /\ Visited("save_history")
          /\ Visited("build_answer") \/ Visited("map_lookup")
    /\ chat.to \in {"small_talk", "irrelevant", "note_start", "note_plot", "note_road",
                    "note_direct"} => chat.history_writes = 0 /\ ~Visited("save_history")

\* a map_lookup turn that could not parse the message has written the
\* exchange to the history
C19_Witness ==
    /\ chat.node = "END"
    /\ chat.to = "map"
    /\ chat.branch = "cannot_parse"
    /\ chat.history_writes = 1

\* C20 as stated: fuzzy resolution never raises and never invents a value.
\* Every call returns the input unchanged or a fetched candidate: the best
\* candidate exactly when its score meets the threshold, the input when the
\* raw value is empty, there is no candidate or the best score is below the
\* threshold.
C20_FuzzyNeverRaisesNorInvents ==
    \A i \in DOMAIN chat.fuzzy_log :
        /\ chat.fuzzy_log[i].ok
        /\ chat.fuzzy_log[i].value \in
              {chat.fuzzy_log[i].call.raw_value} \cup chat.fuzzy_log[i].call.choices
        /\ IF \/ chat.fuzzy_log[i].call.raw_value = <<>>
              \/ chat.fuzzy_log[i].call.choices = {}
              \/ chat.fuzzy_log[i].call.score < chat.fuzzy_log[i].call.threshold
           THEN chat.fuzzy_log[i].value = chat.fuzzy_log[i].call.raw_value
           ELSE chat.fuzzy_log[i].value = chat.fuzzy_log[i].call.best

(***************************************************************************)
(* Further properties of the guardrail (SpecGuard)                         *)
(***************************************************************************)
\* a qualified reference alias.column of a query resolves, in the scope of
\* that query, to a table that allows the column
QualifiedResolves(col, scope) ==
    (col.table # "" /\ col.table \in DOMAIN scope) =>
        /\ scope[col.table] \in ALLOWED_TABLES
        /\ col.name \in ALLOWED_COLUMNS[scope[col.table]]

RECURSIVE QualifiedAtOwnLevel(_, _)
RECURSIVE QualifiedAtOwnLevelIn(_, _, _)
QualifiedAtOwnLevelIn(cols, kids, scope) ==
    /\ \A i \in DOMAIN cols : QualifiedResolves(cols[i], scope)
    /\ \A i \in DOMAIN kids : QualifiedAtOwnLevel(kids[i], scope)

QualifiedAtOwnLevel(sel, outer) ==
    QualifiedAtOwnLevelIn(OwnColumns(sel), Children(sel),
                          LocalScope(OwnTables(sel.from), outer))

\* the accepted text, parsed as the guardrail parses it
AcceptedSelect(text) == ParseStatement(WithoutTerminator(Tokenize(_clean_sql_one_statement(text).sql)))

\* C24 as stated: a qualified reference alias.column is accepted only if the
\* column is allowed for the table the alias denotes at the nesting level of
\* the reference, also when a table is joined several times under different
\* aliases and when an alias name is bound to another table in a subquery.
C24_QualifiedColumnAtOwnLevel ==
    (Validated /\ guard.first.ok /\ AcceptedSelect(guard.sql).ok
       /\ AcceptedSelect(guard.sql).node.kind = "Select") =>
        QualifiedAtOwnLevel(AcceptedSelect(guard.sql).node, EmptyMap)

\* the text the guardrail returned, parsed
ReturnedSelect(text) == ParseStatement(WithoutTerminator(Tokenize(text)))

\* an aggregate function in the select list of the query itself
TopLevelAggregate(sel) == \E i \in DOMAIN sel.items : sel.items[i].e.kind = "AggFunc"

\* the LIMIT of the output, given the statement that came in
TopLevelLimitRule(in, out) ==
    /\ out.ok
    /\ out.node.kind = "Select"
    /\ IF in.limit # "" THEN out.node.limit = in.limit
       ELSE IF TopLevelAggregate(in) THEN out.node.limit = ""
       ELSE out.node.limit = ToString(default_limit)

\* C25 as stated: limit enforcement looks at the top level only.  A top-level
\* LIMIT is kept with its value; without one the default LIMIT is appended
\* unless the top-level select list holds an aggregate; a LIMIT or an
\* aggregate inside a subquery, or the word LIMIT inside a string literal,
\* does not suppress the default LIMIT.
C25_TopLevelLimitOnly ==
    (Validated /\ guard.first.ok /\ AcceptedSelect(guard.sql).ok
       /\ AcceptedSelect(guard.sql).node.kind = "Select") =>
        TopLevelLimitRule(AcceptedSelect(guard.sql).node, ReturnedSelect(guard.first.sql))

StageNames ==
    <<"clean_single_statement", "keyword_guard", "table_column_whitelist", "limit_enforcer">>

\* stage k of the guardrail on its own, for the text sql
StageResult(k, sql) ==
    CASE k = 1 -> _clean_sql_one_statement(sql)
      [] k = 2 -> _cheap_keyword_guard(_clean_sql_one_statement(sql).sql)
      [] k = 3 -> _guard_tables_and_columns(_clean_sql_one_statement(sql).sql)
      [] k = 4 -> _enforce_limit(_clean_sql_one_statement(sql).sql)

\* r is what the stages give when run in order up to the first that fails
StagesInOrder(sql, r) ==
    /\ Len(r.checks) \in 1..4
    /\ r.checks = SubSeq(StageNames, 1, Len(r.checks))
    /\ \A k \in 1..(Len(r.checks) - 1) : StageResult(k, sql).ok
    /\ r.ok = StageResult(Len(r.checks), sql).ok
    /\ r.ok => r.checks = StageNames /\ r.sql = StageResult(4, sql).sql
    /\ ~r.ok => /\ r.reason = StageResult(Len(r.checks), sql).reason
                /\ r.exc = StageResult(Len(r.checks), sql).exc

\* C26: the guardrail runs statement normalization, keyword guard,
\* table/column whitelist and limit enforcement in this order and stops at
\* the first stage that fails; the rejection is that of the earliest failing
\* stage, and on success the check list is exactly the four names in order.
C26_StagesInOrder == Validated => StagesInOrder(guard.sql, guard.first)

\* the keyword guard rejected a text that the whitelist stage would reject
\* as well
C26_Witness ==
    /\ Validated
    /\ ~guard.first.ok
    /\ guard.first.checks = <<"clean_single_statement", "keyword_guard">>
    /\ guard.first.reason = "Disallowed keyword found in SQL."
    /\ ~StageResult(3, guard.sql).ok
    /\ StageResult(3, guard.sql).reason # guard.first.reason

(***************************************************************************)
(* Further properties of the repair loop (SpecRepair) and of the turn      *)
(***************************************************************************)
\* the attempts of a loop that returned: numbered from 1, all rejected with
\* their reason but the last, which passed
AttemptsOfSuccess(attempts) ==
    /\ attempts # <<>>
    /\ \A k \in DOMAIN attempts : attempts[k].attempt = k
    /\ \A k \in 1..(Len(attempts) - 1) :
          /\ ~attempts[k].ok
          /\ attempts[k].error = clean_and_validate_sql(attempts[k].original_sql).reason
          /\ ~clean_and_validate_sql(attempts[k].original_sql).ok
    /\ Last(attempts).ok

\* C27 as stated: every failed validation in the repair loop is recorded and
\* repaired while retries remain.  A loop that returns has one attempt per
\* candidate validated, numbered 1..k, the first k-1 rejected with their
\* reason and the last accepted, and calls nothing after the first success;
\* no failure of a guardrail stage, a failure to parse the candidate
\* included, leaves the loop unrecorded while retries remain.
C27_FailuresRecordedAndRepaired ==
    /\ loop.pc = "returned" =>
          /\ AttemptsOfSuccess(loop.attempts_info)
          /\ Len(loop.attempts_info) = loop.validations
          /\ loop.llm_calls = loop.validations - 1
    /\ (loop.pc = "raised" /\ loop.result.exc # "LLMError") =>
          /\ Len(loop.attempts_info) = loop.validations
          /\ ~Last(loop.attempts_info).ok
          /\ loop.attempt >= loop.max_retries

\* the positions of the turn inside generate_sql_node
GeneratePositions ==
    {"generate_sql", "first_loop", "direct_repair", "second_loop",
     "raised:generate_sql", "raised:direct_repair"}

\* C28: repair is bounded per turn.  generate_sql_node sends at most three
\* repair requests (one retry in its first loop, one direct repair, one retry
\* in its second loop), execute_sql at most two, no loop retries more than
\* once, the generated SQL is handed to run_select at most twice, and after
\* the second execution the turn is over whatever the engine answered: an
\* engine error on the second execution is not repaired again.
C28_RepairBoundedPerTurn ==
    /\ repairs.generate_sql_node <= 3
    /\ repairs.execute_sql <= 2
    /\ loop.llm_calls <= 1
    /\ rs_call.n <= 2 /\ Len(engine_log) <= 2
    /\ rs_call.n = 2 => pc = "done"
    /\ pc \in GeneratePositions => (repairs.execute_sql = 0 /\ rs_call.n = 0)
    /\ (pc = "first_loop" /\ ~LoopEnded) => repairs.generate_sql_node = loop.llm_calls
    /\ (pc = "execution_loop" /\ ~LoopEnded) => repairs.execute_sql = 1 + loop.llm_calls

\* every repair request of the turn was used and the second execution failed
\* in the engine
C28_Witness ==
    /\ pc = "done"
    /\ repairs.generate_sql_node = 3
    /\ repairs.execute_sql = 2
    /\ rs_call.n = 2
    /\ rs_call.raised = "ProgrammingError"
    /\ Len(engine_log) = 2
    /\ state.failed = "execute_sql"

(***************************************************************************)
(* Further properties of the conversation (SpecChat)                       *)
(***************************************************************************)
\* LIMIT 5000 for a column of property_addresses, LIMIT 45000 for persons.name
RowCap(column) == IF column = "name" THEN "45000" ELSE "5000"

\* the candidate fetch of a fuzzy call as run_select handed it to the engine
ExecutedFetch(column) ==
    IF column = "name" THEN NamesSelected.sql ELSE DistinctSelected[column].sql

CarriesCap(text, cap) ==
    \E k \in 1..(Len(text) - 1) : Upper(text[k]) = "LIMIT" /\ text[k + 1] = cap

\* C29 as stated: the candidate fetch a fuzzy match actually executes carries
\* the row cap, LIMIT 5000 for plot_no and road_no and LIMIT 45000 for names.
C29_FetchCarriesCap ==
    \A i \in DOMAIN chat.fuzzy_log :
        chat.fuzzy_log[i].sent # <<>> =>
            CarriesCap(ExecutedFetch(chat.fuzzy_log[i].call.column),
                       RowCap(chat.fuzzy_log[i].call.column))

\* the turn in progress began with the wizard active: route has taken the
\* wizard's edge, or has not acted yet and self.note_flow is still as the
\* turn found it
WizardActiveAtStart(c) ==
    \/ c.to \in {"note_plot", "note_road"}
    \/ c.to = "" /\ c.node \in {"classify", "route", "raised"} /\ c.note_flow.active

\* C30 as stated: in a turn that begins with the wizard active, classification
\* is bypassed entirely - the classify node does not run, neither the keyword
\* override nor the model produces a label, the model is not called, and the
\* turn cannot end in a failure of the classifier.
C30_ClassificationBypassed ==
    WizardActiveAtStart(chat) =>
        /\ ~Visited("classify")
        /\ chat.label = ""
        /\ ~chat.consulted
        /\ chat.raised # "LLMError"

(***************************************************************************)
(* memory.py : the calls of ConversationMemory on one object (SpecMemory)   *)
(***************************************************************************)
MemoryStep(m) ==
    /\ memory' = m
    /\ UNCHANGED <<guard, rs_call, engine_log, loop, pc, state, chat, repairs,
                   standalone, turns,
                   collection>>

update_from_entities ==
    \E entities \in EntityBundles :
        MemoryStep(Called(UpdateFromEntities(memory, entities), "update_from_entities",
                          entities))

update_from_sql_rows ==
    \E rows \in RowLists :
        MemoryStep(Called(UpdateFromSqlRows(memory, rows), "update_from_sql_rows",
                          NoEntities))

reset == MemoryStep(Called(MemoryInit, "reset", NoEntities))

InitMemory ==
    /\ memory = MemoryInit
    /\ guard = GuardIdle
    /\ rs_call = NoCall
    /\ engine_log = <<>>
    /\ loop = LoopIdle
    /\ pc = "idle"
    /\ state = State0
    /\ chat = NoChat
    /\ repairs = NoRepairs
    /\ standalone = Off
    /\ turns = Off
    /\ collection = Off

NextMemory == update_from_entities \/ update_from_sql_rows \/ reset

SpecMemory == InitMemory /\ [][NextMemory]_vars

\* a field known before the call is known after it
KeepsKnown(found, focus) ==
    /\ found.pra # None => focus.pra # None
    /\ found.file_name # None => focus.file_name # None

\* C22 as stated: no call of update_from_entities or update_from_sql_rows
\* replaces a non-null focus_property.pra or focus_property.file_name by
\* null; only reset does.
C22_KnownFieldNeverErased ==
    memory.last_call.op \in {"update_from_entities", "update_from_sql_rows"} =>
        KeepsKnown(memory.last_call.found, memory.focus_property)

(***************************************************************************)
(* graph.py : two run() calls on one PropertyChatbotGraph.  run() takes no *)
(* lock, so the nodes of two calls interleave; a step is one node of one   *)
(* call.  turns holds what the calls share (self.note_flow, self.on_token) *)
(* and, for each call, its own ChatbotState and position, and which of the *)
(* shared attributes it has read or written so far.                        *)
(***************************************************************************)
Threads == {"first", "second"}

\* the messages of the overlapping turns, and what the classifier's model
\* may answer them
OverlapMessages == {<<"note", "summary">>, <<"30">>, <<"14">>, <<"hello">>}

OverlapReplies == {[ok |-> TRUE, label |-> "small_talk"], [ok |-> FALSE, label |-> ""]}

OverlapRegistry == {row \in AddressRows : row.pra = "PRA1"}

\* a call that is not running: ended tells how the last one ended
NotRunning(ended) ==
    [turn |-> ChatIdle(OverlapRegistry), touched |-> {}, ended |-> ended]

\* the state a node of a call works on: its own, with self.note_flow
SeenBy(t) == [turns.call[t].turn EXCEPT !.note_flow = turns.note_flow]

\* the shared attributes a node reads or writes
Touches(node) ==
    IF node \in {"route", "start_note_summary", "collect_plot", "collect_road"}
    THEN {"note_flow"} ELSE {}

\* every way the node a call has reached may go
NodeOutcomes(c) ==
    CASE c.node = "load_history" ->
           {[c EXCEPT !.node = "classify", !.visited = Append(@, "load_history")]}
      [] c.node = "classify" ->
           {AfterClassify(c, classify_property_query(c.user_query, reply))
               : reply \in OverlapReplies}
      [] c.node = "route" ->
           {Routed(c, route_by_classification(c.user_query, c.label, c.note_flow))}
      [] c.node = "handle_small_talk" ->
           {Return(c, "handle_small_talk", "END", "", "small talk", "empty"),
            Raise(c, "handle_small_talk", "LLMError")}
      [] c.node = "start_note_summary" ->
           {StartNoteSummary(c, "start_note_summary")}
      [] c.node = "collect_plot" ->
           {CollectPlot(c, f)
               : f \in FuzzyColumnOutcomes("plot_no", c.user_query, 80, c.registry)}
      [] c.node = "collect_road" ->
           UNION {IF ~f.ok
                  THEN {Raise(Logged(c, f.sent, <<f>>), "collect_road", f.exc)}
                  ELSE {CollectRoad(Logged(c, f.sent, <<f>>), f, engine_ok, doc_ok)
                           : engine_ok \in BOOLEAN, doc_ok \in BOOLEAN}
                    : f \in FuzzyColumnOutcomes("road_no", c.user_query, 65, c.registry)}
      [] OTHER -> {}

InFlight(t) == turns.call[t].turn.node # "idle"

OverlapStep(shared) ==
    /\ turns' = shared
    /\ UNCHANGED <<guard, rs_call, engine_log, loop, pc, state, chat, repairs,
                   memory, standalone,
                   collection>>

\* run() up to graph.invoke: self.on_token = on_token
run_begin ==
    \E t \in Threads, user_query \in OverlapMessages :
        /\ ~InFlight(t)
        /\ OverlapStep([turns EXCEPT
              !.on_token = t,
              !.call[t] = [turn |-> [TurnStart(SeenBy(t), user_query)
                                        EXCEPT !.note_flow = NoteFlowOff],
                           touched |-> {"on_token"}, ended |-> ""]])

\* one node of the graph; an exception leaves run() at once
graph_step ==
    \E t \in Threads :
        /\ InFlight(t)
        /\ \E c \in NodeOutcomes(SeenBy(t)) :
              OverlapStep([turns EXCEPT
                 !.note_flow = c.note_flow,
                 !.call[t] =
                     IF c.node = "raised" THEN NotRunning(c.raised)
                     ELSE [turn |-> [c EXCEPT !.note_flow = NoteFlowOff],
                           touched |-> @.touched \cup Touches(SeenBy(t).node),
                           ended |-> ""]])

\* run() after graph.invoke: self.on_token = None, and the return
run_end ==
    \E t \in Threads :
        /\ turns.call[t].turn.node = "END"
        /\ OverlapStep([turns EXCEPT !.on_token = None,
                                      !.call[t] = NotRunning("returned")])

InitOverlap ==
    /\ turns = [note_flow |-> NoteFlowOff, on_token |-> None,
                call |-> [t \in Threads |-> NotRunning("")]]
    /\ guard = GuardIdle
    /\ rs_call = NoCall
    /\ engine_log = <<>>
    /\ loop = LoopIdle
    /\ pc = "idle"
    /\ state = State0
    /\ chat = NoChat
    /\ repairs = NoRepairs
    /\ memory = Off
    /\ standalone = Off
    /\ collection = Off

NextOverlap == run_begin \/ graph_step \/ run_end

SpecOverlap == InitOverlap /\ [][NextOverlap]_vars

\* the wizard as turns run one after the other can leave it: off, waiting for
\* the plot, or waiting for the road with the plot known
SequentialWizardState(note_flow) ==
    \/ note_flow = NoteFlowOff
    \/ note_flow = NoteFlow(TRUE, "plot", NoValue, NoValue)
    \/ /\ note_flow.active
       /\ note_flow.step = "road"
       /\ note_flow.plot # NoValue

\* C23 as stated: turns of one conversation are serialized.  While two run()
\* calls overlap, one of them has not read or written self.note_flow or
\* self.on_token yet; and the wizard state the calls leave behind is one that
\* turns run one after the other can leave.
C23_TurnsSerialized ==
    /\ \A t \in Threads, u \in Threads :
          (t # u /\ InFlight(t) /\ InFlight(u)) =>
              (turns.call[t].touched = {} \/ turns.call[u].touched = {})
    /\ (\A t \in Threads : ~InFlight(t)) => SequentialWizardState(turns.note_flow)

(***************************************************************************)
(* graph.py : _postprocess_standalone_question.  A question is the         *)
(* sequence of its words (runs of \w characters) and punctuation marks; a  *)
(* plot, road or name value is a sequence of words.  standalone holds the  *)
(* arguments, the text and the entities after the two normalisations, and  *)
(* what the function returned.                                             *)
(***************************************************************************)
\* \d{1,4} as a whole word
IsNumber(w) == w \in {"30", "31", "14"}

\* [A-Z][a-zA-Z']* as a whole word
IsCapitalized(w) == w \in {"Neelam", "Kohli", "Who", "Bagh", "East", "Punjabi"}

\* [A-Za-z]*punjab[A-Za-z]* as a whole word
HasPunjab(w) == w \in {"Punjabi", "punjabi", "Punjabhi"}

IsPunctuation(w) == w \in {"?", "/", "(", ")"}

ContainsWords(text, sub) ==
    \E k \in 1..(Len(text) - Len(sub) + 1) : SubSeq(text, k, k + Len(sub) - 1) = sub

\* str.replace(raw, new), and re.sub(r"\b" + raw + r"\b", new, text) for a raw
\* value made of whole words: every occurrence, from the left
RECURSIVE ReplaceWords(_, _, _)
ReplaceWords(text, raw, new) ==
    IF raw = <<>> \/ Len(text) < Len(raw) THEN text
    ELSE IF SubSeq(text, 1, Len(raw)) = raw
    THEN new \o ReplaceWords(SubSeq(text, Len(raw) + 1, Len(text)), raw, new)
    ELSE <<Head(text)>> \o ReplaceWords(Tail(text), raw, new)

\* re.compile(re.escape(raw), re.IGNORECASE).sub(new, text)
RECURSIVE ReplaceWordsIgnoreCase(_, _, _)
ReplaceWordsIgnoreCase(text, raw, new) ==
    IF raw = <<>> \/ Len(text) < Len(raw) THEN text
    ELSE IF LowerText(SubSeq(text, 1, Len(raw))) = LowerText(raw)
    THEN new \o ReplaceWordsIgnoreCase(SubSeq(text, Len(raw) + 1, Len(text)), raw, new)
    ELSE <<Head(text)>> \o ReplaceWordsIgnoreCase(Tail(text), raw, new)

\* text[:start] + replacement + text[end:] for the words first..last
Spliced(text, first, last, replacement) ==
    SubSeq(text, 1, first - 1) \o replacement \o SubSeq(text, last + 1, Len(text))

\* the least element of a set of positions
Leftmost(positions) == CHOOSE k \in positions : \A j \in positions : k <= j

\* positions where \d{1,4} / \d{1,4} and \d{1,4} \d{1,4} begin
SlashPairs(text) ==
    {k \in 1..(Len(text) - 2) :
        IsNumber(text[k]) /\ text[k + 1] = "/" /\ IsNumber(text[k + 2])}

SpacePairs(text) ==
    {k \in 1..(Len(text) - 1) : IsNumber(text[k]) /\ IsNumber(text[k + 1])}

PlotRoadPhrase(plot, road) == <<"plot", "number", plot, "road", road>>

\* [text, ner]
_normalize_plot_road_patterns(question, ner) ==
    IF question = <<>> THEN [text |-> question, ner |-> ner]
    ELSE IF SlashPairs(question) # {}
    THEN [text |-> Spliced(question, Leftmost(SlashPairs(question)),
                           Leftmost(SlashPairs(question)) + 2,
                           PlotRoadPhrase(question[Leftmost(SlashPairs(question))],
                                          question[Leftmost(SlashPairs(question)) + 2])),
          ner |-> [ner EXCEPT
                     !.plot_no = <<question[Leftmost(SlashPairs(question))]>>,
                     !.road_no = <<question[Leftmost(SlashPairs(question)) + 2]>>]]
    ELSE IF SpacePairs(question) # {}
    THEN [text |-> Spliced(question, Leftmost(SpacePairs(question)),
                           Leftmost(SpacePairs(question)) + 1,
                           PlotRoadPhrase(question[Leftmost(SpacePairs(question))],
                                          question[Leftmost(SpacePairs(question)) + 1])),
          ner |-> [ner EXCEPT
                     !.plot_no = <<question[Leftmost(SpacePairs(question))]>>,
                     !.road_no = <<question[Leftmost(SpacePairs(question)) + 1]>>]]
    ELSE [text |-> question, ner |-> ner]

\* positions where bagh east|west begins
BaghSpans(text) ==
    {k \in 1..(Len(text) - 1) :
        Lower(text[k]) = "bagh" /\ Lower(text[k + 1]) \in {"east", "west"}}

\* where the match begins: at the word holding punjab when one stands before
SpanStart(text, k) == IF k > 1 /\ HasPunjab(text[k - 1]) THEN k - 1 ELSE k

\* close tells whether fuzz.WRatio gave the span 70 or more
_normalize_punjabi_bagh(question, close) ==
    IF question = <<>> \/ BaghSpans(question) = {} \/ ~close THEN question
    ELSE Spliced(question, SpanStart(question, Leftmost(BaghSpans(question))),
                 Leftmost(BaghSpans(question)) + 1,
                 <<"Punjabi", "Bagh",
                   IF Lower(question[Leftmost(BaghSpans(question)) + 1]) = "east"
                   THEN "East" ELSE "West">>)

\* one field of _apply_fuzzy_plot_road: f is the call of _fuzzy_match_column
\* for the value the entities held on entry
SnapField(text, raw, f) ==
    IF raw # <<>> /\ f.value # <<>> /\ f.value # raw
    THEN ReplaceWords(text, raw, f.value)
    ELSE text

SnappedValue(raw, f) == IF raw # <<>> /\ f.value # <<>> /\ f.value # raw THEN f.value ELSE raw

_apply_fuzzy_plot_road(question, ner, p, r) ==
    IF question = <<>> THEN [text |-> question, ner |-> ner]
    ELSE [text |-> SnapField(SnapField(question, ner.plot_no, p), ner.road_no, r),
          ner |-> [ner EXCEPT !.plot_no = SnappedValue(ner.plot_no, p),
                              !.road_no = SnappedValue(ner.road_no, r)]]

\* the words before the trailing punctuation
RECURSIVE WithoutTrailingMarks(_)
WithoutTrailingMarks(text) ==
    IF text # <<>> /\ IsPunctuation(text[Len(text)])
    THEN WithoutTrailingMarks(SubSeq(text, 1, Len(text) - 1))
    ELSE text

\* where the capitalised words that end the text begin; n + 1 when the word
\* at n is not capitalised
RECURSIVE TrailingNameStart(_, _)
TrailingNameStart(text, n) ==
    IF n >= 1 /\ IsCapitalized(text[n]) THEN TrailingNameStart(text, n - 1) ELSE n + 1

_replace_name_in_question(text, raw_name, canonical_name) ==
    IF text = <<>> \/ canonical_name = <<>> THEN text
    ELSE IF ContainsWords(text, canonical_name) THEN text
    ELSE IF raw_name # <<>> /\ ContainsWords(text, raw_name)
    THEN ReplaceWords(text, raw_name, canonical_name)
    ELSE IF raw_name # <<>> /\ ContainsWords(LowerText(text), LowerText(raw_name))
    THEN ReplaceWordsIgnoreCase(text, raw_name, canonical_name)
    ELSE IF TrailingNameStart(text, Len(WithoutTrailingMarks(text)))
               <= Len(WithoutTrailingMarks(text))
    THEN Spliced(text, TrailingNameStart(text, Len(WithoutTrailingMarks(text))),
                 Len(WithoutTrailingMarks(text)), canonical_name)
    ELSE text \o <<"(">> \o canonical_name \o <<")">>

\* "last name" in lower_q or "surname" in lower_q
SurnameQuery(text) ==
    \/ ContainsWords(LowerText(text), <<"last", "name">>)
    \/ ContainsWords(LowerText(text), <<"surname">>)

\* canonical = _fuzzy_match_person_name(raw) ; if not canonical: canonical = raw
CanonicalName(raw_name, n) == IF n.value = <<>> THEN raw_name ELSE n.value

\* ner["person"] holds at most one name in the model
_apply_fuzzy_person_names(question, ner, n) ==
    IF question = <<>> \/ SurnameQuery(question) \/ ner.person = <<>>
    THEN [text |-> question, ner |-> ner, resolved |-> <<>>]
    ELSE IF ner.person[1] = <<>>
    THEN [text |-> question, ner |-> ner, resolved |-> <<>>]
    ELSE [text |-> _replace_name_in_question(question, ner.person[1],
                                             CanonicalName(ner.person[1], n)),
          ner |-> [ner EXCEPT !.person = <<CanonicalName(ner.person[1], n)>>],
          resolved |-> <<CanonicalName(ner.person[1], n)>>]

\* the registry the questions are asked against
StandaloneRegistry == {row \in AddressRows : row.pra # ""}

NoFuzzyCall(raw) == FuzzyReturned(raw, <<>>, FuzzyCall("", raw, 0, {}, <<>>, NoValue))

\* the ways the call for one value may go; none is made for a missing value
ColumnCalls(column, raw) ==
    IF raw = <<>> THEN {NoFuzzyCall(raw)}
    ELSE FuzzyColumnOutcomes(column, raw, 65, StandaloneRegistry)

NameCalls(text, ner) ==
    IF text = <<>> \/ SurnameQuery(text) \/ ner.person = <<>> THEN {NoFuzzyCall(<<>>)}
    ELSE IF ner.person[1] = <<>> THEN {NoFuzzyCall(<<>>)}
    ELSE FuzzyNameOutcomes(ner.person[1], 85)

Questions ==
    {<<>>,
     <<"who", "owns", "plot", "30", "road", "14">>,
     <<"who", "owns", "plot", "14", "road", "14">>,
     <<"who", "owns", "30", "/", "14">>,
     <<"who", "owns", "the", "plot">>,
     <<"date", "of", "birth", "of", "Neelam", "?">>,
     <<"plots", "of", "neelam", "kohl", "in", "bagh", "east">>,
     <<"surname", "of", "the", "owner", "of", "plot", "30">>}

NerBundles ==
    [plot_no : {<<>>, <<"30">>, <<"14">>},
     road_no : {<<>>, <<"14">>},
     person  : {<<>>, <<<<"Neelam">>>>, <<<<"neelam", "kohl">>>>}]

\* steps 1) and 2)
Normalized(question, ner, close) ==
    [text |-> _normalize_punjabi_bagh(_normalize_plot_road_patterns(question, ner).text,
                                      close),
     ner  |-> _normalize_plot_road_patterns(question, ner).ner]

PostRaised(exc) ==
    [standalone EXCEPT !.pc = "raised", !.exc = exc]

\* steps 3) and 4) from the normalised text, with the calls going as p, r, n
PostReturned(norm, p, r, n) ==
    [standalone EXCEPT
       !.pc = "returned",
       !.normalized = norm,
       !.text = _apply_fuzzy_person_names(_apply_fuzzy_plot_road(norm.text, norm.ner, p, r).text,
                                          _apply_fuzzy_plot_road(norm.text, norm.ner, p, r).ner,
                                          n).text,
       !.out = _apply_fuzzy_person_names(_apply_fuzzy_plot_road(norm.text, norm.ner, p, r).text,
                                         _apply_fuzzy_plot_road(norm.text, norm.ner, p, r).ner,
                                         n).ner,
       !.resolved = _apply_fuzzy_person_names(
                        _apply_fuzzy_plot_road(norm.text, norm.ner, p, r).text,
                        _apply_fuzzy_plot_road(norm.text, norm.ner, p, r).ner, n).resolved]

PostStep(s) ==
    /\ standalone' = s
    /\ UNCHANGED <<guard, rs_call, engine_log, loop, pc, state, chat, repairs,
                   memory, turns,
                   collection>>

\* the function on a question that is not empty, once normalised as norm
Postprocess(norm) ==
    \E p \in ColumnCalls("plot_no", norm.ner.plot_no) :
       IF ~p.ok THEN PostStep(PostRaised(p.exc))
       ELSE \E r \in ColumnCalls("road_no", norm.ner.road_no) :
               IF ~r.ok THEN PostStep(PostRaised(r.exc))
               ELSE \E n \in NameCalls(_apply_fuzzy_plot_road(norm.text, norm.ner, p, r).text,
                                        norm.ner) :
                       IF ~n.ok THEN PostStep(PostRaised(n.exc))
                       ELSE PostStep(PostReturned(norm, p, r, n))

_postprocess_standalone_question ==
    /\ standalone.pc = "called"
    /\ IF standalone.question = <<>>
       THEN PostStep([standalone EXCEPT !.pc = "returned"])
       ELSE \E close \in BOOLEAN :
               Postprocess(Normalized(standalone.question, standalone.ner, close))

InitStandalone ==
    /\ \E question \in Questions, ner \in NerBundles :
          standalone = [pc |-> "called", question |-> question, ner |-> ner,
                        normalized |-> [text |-> question, ner |-> ner],
                        text |-> question, out |-> ner, resolved |-> <<>>, exc |-> ""]
    /\ guard = GuardIdle
    /\ rs_call = NoCall
    /\ engine_log = <<>>
    /\ loop = LoopIdle
    /\ pc = "idle"
    /\ state = State0
    /\ chat = NoChat
    /\ repairs = NoRepairs
    /\ memory = Off
    /\ turns = Off
    /\ collection = Off

NextStandalone == _postprocess_standalone_question

SpecStandalone == InitStandalone /\ [][NextStandalone]_vars

\* the field was replaced by the value the fuzzy match resolved it to
Resolved(field) == standalone.out[field] # standalone.normalized.ner[field]

\* the text and the field agree: a resolved field's canonical value stands in
\* the text, and a field that was not resolved is still mentioned if it was
AgreesWithText(field) ==
    IF Resolved(field)
    THEN ContainsWords(standalone.text, standalone.out[field])
    ELSE ContainsWords(standalone.normalized.text, standalone.out[field])
            => ContainsWords(standalone.text, standalone.out[field])

\* C21 as stated: after post-processing, a plot_no or road_no that was
\* replaced by its fuzzy-resolved canonical value stands in the question text
\* in place of the raw mention, the substitution has altered no other field's
\* mention, and every resolved person name appears in the text.
C21_EntitiesAndTextAgree ==
    standalone.pc = "returned" =>
        /\ AgreesWithText("plot_no")
        /\ AgreesWithText("road_no")
        /\ \A k \in DOMAIN standalone.resolved :
              ContainsWords(standalone.text, standalone.resolved[k])

(***************************************************************************)
(* Further properties of the wizard and of the turn (SpecChat)             *)
(***************************************************************************)
TurnOver == chat.node \in {"END", "raised"}

\* parse_plot_road_from_text finds both a plot and a road in the message
BothExtractable(user_query) ==
    /\ parse_plot_road_from_text(user_query).plot # <<>>
    /\ parse_plot_road_from_text(user_query).road # <<>>

WizardAtPlot == NoteFlow(TRUE, "plot", NoValue, NoValue)

\* what a note-summary trigger message is said to do to the wizard
TriggerEffect ==
    IF BothExtractable(chat.user_query)
    THEN Visited("note_direct") /\ chat.note_flow = NoteFlowOff
    ELSE chat.note_flow = WizardAtPlot

\* the turn found the wizard inactive and has left it active
ActivatedThisTurn == chat.to \notin {"", "note_plot", "note_road"} /\ chat.note_flow.active

ReachedNoteRule ==
    /\ chat.to \notin {"", "note_plot", "note_road"}
    /\ ~_is_map_trigger(chat.user_query)

C32_WizardSessionEnds ==
    TurnOver =>
        /\ WizardActiveAtStart(chat) => chat.to \in {"note_plot", "note_road"}
        /\ chat.to = "note_plot" =>
              (Visited("collect_plot") /\ chat.note_flow.active
                 /\ chat.note_flow.step = "road")
        /\ chat.to = "note_road" =>
              (Visited("collect_road") /\ ~chat.note_flow.active)

\* C33: save_history persists the exchange if and only if the turn produced
\* at least one result row or the classification label is not property_talk;
\* so a turn labelled property_talk with no rows, in the SQL flow or in
\* map_lookup, is not persisted.
C33_PersistedIffRowsOrOtherLabel ==
    Visited("save_history") =>
        /\ chat.to \in {"property_talk", "map"}
        /\ (chat.history_writes = 1) <=>
              (chat.sql_rows = "rows" \/ chat.label # "property_talk")
        /\ (chat.history_writes = 0) <=>
              (chat.sql_rows # "rows" /\ chat.label = "property_talk")

\* a map_lookup turn labelled property_talk that produced no row went through
\* save_history and was not persisted
C33_Witness ==
    /\ chat.node = "END"
    /\ Visited("save_history")
    /\ chat.to = "map"
    /\ chat.label = "property_talk"
    /\ chat.sql_rows = "empty"
    /\ chat.history_writes = 0

(***************************************************************************)
(* Properties of the conversation focus (SpecMemory, SpecChat)             *)
(***************************************************************************)
\* the name a "person" list holds
NameOf(given) ==
    CASE given = "['neelam']"         -> "neelam"
      [] given = "['neelam', 'kohl']" -> "neelam kohl"
      [] OTHER                        -> None

\* C35 as stated: focus_person is the last non-empty person seen.  After
\* update_from_entities on an entity bundle of the NER extraction whose
\* person field is non-empty, focus_person holds that person's name; an
\* update with no person leaves focus_person as it was.
C35_FocusPersonFollowsNer ==
    (memory.last_call.op = "update_from_entities" /\ memory.last_call.ner) =>
        IF memory.last_call.given \in PersonLists
        THEN memory.focus_person = NameOf(memory.last_call.given)
        ELSE memory.focus_person = memory.last_call.person

\* C34 as stated: after a property_talk turn whose execution produced
\* rows, the memory's last rows are those rows (and the focus is taken from
\* the first of them).
C34_FocusUpdatedAfterExecution ==
    (TurnOver /\ chat.to = "property_talk" /\ Visited("execute_sql")
        /\ chat.sql_rows = "rows") => memory.last_sql_rows # <<>>

\* the three conditions of the wizard state
WizardInvariant(note_flow) ==
    /\ note_flow.active <=> note_flow.step \in {"plot", "road"}
    /\ note_flow.step = "road" => note_flow.plot # NoValue
    /\ ~note_flow.active =>
          (note_flow.step = None /\ note_flow.plot = NoValue /\ note_flow.road = NoValue)

\* C36: at every turn boundary the wizard is active exactly when its step is
\* 'plot' or 'road', the step 'road' implies a non-null plot, and an
\* inactive wizard has step, plot and road all null.
C36_WizardInvariantAtTurnBoundary ==
    (TurnOver \/ chat.node = "idle") => WizardInvariant(chat.note_flow)

\* a road-collection turn that failed after storing the road: the wizard is
\* still active at step 'road', with plot and road set
C36_Witness ==
    /\ chat.node = "raised"
    /\ Visited("collect_road")
    /\ chat.note_flow.active
    /\ chat.note_flow.step = "road"
    /\ chat.note_flow.plot # NoValue
    /\ chat.note_flow.road # NoValue

(***************************************************************************)
(* Properties of the routing (SpecChat)                                    *)
(***************************************************************************)
\* the keys of the conditional edges of _build_graph
RouteKeys ==
    {"small_talk", "irrelevant", "property_talk", "note_start", "note_plot",
     "note_road", "note_direct", "map"}

\* no wizard, map or note-summary rule applies to the turn
NoRuleApplies ==
    /\ ~WizardActiveAtStart(chat)
    /\ ~_is_map_trigger(chat.user_query)
    /\ ~_is_note_summary_trigger(chat.user_query)

\* classify_query has returned and route_by_classification has been called
RouteCalled ==
    /\ Visited("classify")
    /\ chat.node # "route"
    /\ ~(chat.node = "raised" /\ Last(chat.visited) = "classify")

\* C37: routing is total and defaults to the SQL path.  The route taken is
\* one of the eight route keys; when no wizard, map or note-summary rule
\* applies, the label 'small_talk' goes to small_talk, 'irrelevant_question'
\* to irrelevant, and every other label to property_talk.
C37_RoutingTotalDefaultsToSql ==
    RouteCalled =>
        /\ chat.to \in RouteKeys
        /\ NoRuleApplies =>
              chat.to = CASE chat.label = "small_talk"          -> "small_talk"
                          [] chat.label = "irrelevant_question" -> "irrelevant"
                          [] OTHER                              -> "property_talk"

\* a turn whose label is none of the three took the SQL path
C37_Witness ==
    /\ NoRuleApplies
    /\ chat.label = "irrelevant"
    /\ chat.to = "property_talk"
    /\ Visited("extract_entities")

(***************************************************************************)
(* Properties of execute_sql after a failed generation (SpecTurn)          *)
(***************************************************************************)
\* execute_sql only empties the rows: no run_select call, no repair request,
\* the statement text and the error as generate_sql_node left them
ExecutionSkipped ==
    /\ state' = [state EXCEPT !.sql_rows = "empty"]
    /\ pc' = "done"
    /\ UNCHANGED <<rs_call, engine_log, repairs, loop>>

MaxExchanges == 3     \* exchanges saved in the collection

max_docs_per_thread == 20

\* load_history: k=6
load_history_k == 6

UserIds == {"u1", "u2"}

\* the thread_id of a PropertyChatbotGraph: None when none was given
ThreadIds == {None, "t1", "t2"}

Document(user_id, thread_id, role, content) ==
    [user_id |-> user_id, thread_id |-> thread_id, role |-> role, content |-> content]

\* collection.find(query) of last_messages: thread_id is part of the query
\* only if thread_id
Found(docs, user_id, thread_id) ==
    SelectSeq(docs, LAMBDA d : /\ d.user_id = user_id
                               /\ Truthy(thread_id) => d.thread_id = thread_id)

\* .sort("created_at", -1).limit(k), reversed: the last k of them
LastMessages(docs, user_id, k, thread_id) ==
    SubSeq(Found(docs, user_id, thread_id),
           IF Len(Found(docs, user_id, thread_id)) > k
           THEN Len(Found(docs, user_id, thread_id)) - k + 1 ELSE 1,
           Len(Found(docs, user_id, thread_id)))

\* the documents of docs from i on, without those of the user and thread
\* that have max_docs or more newer documents of the same user and thread
RECURSIVE Pruned(_, _, _, _, _)
Pruned(docs, i, user_id, thread_id, max_docs) ==
    IF i > Len(docs) THEN <<>>
    ELSE IF /\ docs[i].user_id = user_id
            /\ docs[i].thread_id = thread_id
            /\ Cardinality({j \in (i + 1)..Len(docs) :
                               /\ docs[j].user_id = user_id
                               /\ docs[j].thread_id = thread_id}) >= max_docs
    THEN Pruned(docs, i + 1, user_id, thread_id, max_docs)
    ELSE <<docs[i]>> \o Pruned(docs, i + 1, user_id, thread_id, max_docs)

\* add_exchange: thread_id = thread_id or user_id, insert_many, prune
AddExchange(docs, user_id, user_message, assistant_message, thread_id) ==
    Pruned(docs \o <<Document(user_id, Or(thread_id, user_id), "user", user_message),
                     Document(user_id, Or(thread_id, user_id), "assistant",
                              assistant_message)>>,
           1, user_id, Or(thread_id, user_id), max_docs_per_thread)

NothingLoaded == [user_id |-> None, thread_id |-> None, docs |-> <<>>]

HistoryStep(h) ==
    /\ collection' = h
    /\ UNCHANGED <<guard, rs_call, engine_log, loop, pc, state, chat, repairs, memory,
                   standalone, turns>>

\* save_history of the object of user_id and thread_id
add_exchange ==
    /\ Len(collection.docs) < 2 * MaxExchanges
    /\ \E user_id \in UserIds, thread_id \in ThreadIds :
          HistoryStep([collection EXCEPT
                         !.docs = AddExchange(@, user_id, "question", "answer", thread_id)])

\* load_history of the object of user_id and thread_id
last_messages ==
    \E user_id \in UserIds, thread_id \in ThreadIds :
       HistoryStep([collection EXCEPT
                      !.loaded = [user_id |-> user_id, thread_id |-> thread_id,
                                  docs |-> LastMessages(collection.docs, user_id,
                                                        load_history_k, thread_id)]])

InitHistory ==
    /\ collection = [docs |-> <<>>, loaded |-> NothingLoaded]
    /\ guard = GuardIdle
    /\ rs_call = NoCall
    /\ engine_log = <<>>
    /\ loop = LoopIdle
    /\ pc = "idle"
    /\ state = State0
    /\ chat = NoChat
    /\ repairs = NoRepairs
    /\ memory = Off
    /\ standalone = Off
    /\ turns = Off

NextHistory == add_exchange \/ last_messages

SpecHistory == InitHistory /\ [][NextHistory]_vars

\* every document of the loaded history was saved for the user and the
\* effective thread of the object that loaded it
Isolated(loaded) ==
    \A i \in DOMAIN loaded.docs :
       /\ loaded.docs[i].user_id = loaded.user_id
       /\ loaded.docs[i].thread_id = Or(loaded.thread_id, loaded.user_id)

====
